---- MODULE Spec2Model ----
(***************************************************************************)
(* A model of the AI code editor's two server-side subsystems:             *)
(*   - BuildRunner (build-runner.ts): the install/build/deploy pipeline,   *)
(*     its in-memory build registry and the cancel/status operations;      *)
(*   - ProjectManager (project-manager.ts) and the code tools              *)
(*     (code-tools.ts): the file tree kept in SQL metadata and R2 content; *)
(*   - the worker's routing (server.ts) in front of both.                  *)
(* R2 keys and file paths are "/"-delimited strings in the code; here they *)
(* are sequences of segments, so `${projectId}/${path}` is <<p>> \o path.  *)
(***************************************************************************)
EXTENDS Integers, Sequences, FiniteSets, TLC

VARIABLES
    now,        \* Date.now(): the wall clock read by the handlers
    r2,         \* env.FILES: the R2 bucket, key -> [body, contentType]
    builds,     \* BuildRunner.builds of each BuildRunner instance: buildId -> BuildStatus
    task,       \* the detached executeBuild of each build: where it is suspended
    nextBuild,  \* how many build ids crypto.randomUUID() has handed out
    nextDo,     \* how many Durable Object names the worker has drawn with randomUUID()
    sql,        \* the SQLite storage of each ProjectManager instance: [projects, files]
    nextId,     \* how many row ids crypto.randomUUID() has handed out
    calls,      \* the updateFile and deleteFile calls a ProjectManager instance has
                \* accepted, each with where it is: suspended at its R2 call, about
                \* to resume, or over
    history,    \* the file sets the bucket has held for the project being built,
                \* one for each instant since the instance was set up
    page,       \* webcontainer.ts in the browser page: webcontainerInstance and
                \* bootPromise, the promise of each WebContainer.boot() invoked, and
                \* the getWebContainer calls made with where each one is
    resp        \* the last Response a handler (or the last result a tool) produced

vars == <<now, r2, builds, task, nextBuild, nextDo, sql, nextId, calls, history, page,
         resp>>

-----------------------------------------------------------------------------
(* Bounds of the model *)

MaxBuilds == 1
MaxClock == 2
MaxRequests == 3
MaxFiles == 2

-----------------------------------------------------------------------------
(* Values *)

None == <<>>
Some(x) == <<x>>

\* webcontainer.ts as the module is loaded: no instance, no boot under way,
\* WebContainer.boot never invoked, no call made.
NoPage ==
    [webcontainerInstance |-> None, bootPromise |-> None, boots |-> <<>>, callers |-> <<>>]

ProjectIds == {"p1", "p2"}
BuildProjects == {"p1"}

BuildId(n) == "b" \o ToString(n)
BuildIds == {BuildId(n) : n \in 1..(MaxBuilds + 1)}

\* The BuildRunner instance addressed directly, and the instances the worker names.
TheRunner == "runner"
DoName(n) == "do" \o ToString(n)

PackageJson == <<"package.json">>
IndexHtml == <<"index.html">>
SrcMainTsx == <<"src", "main.tsx">>
SrcMainJsx == <<"src", "main.jsx">>
SrcIndexTsx == <<"src", "index.tsx">>
SrcIndexJsx == <<"src", "index.jsx">>
StyleCss == <<"style.css">>
MyFileCss == <<"my file.css">>
SrcDir == <<"src">>

\* Every path of the model, in the lexicographic key order R2's list() returns.
PathOrder ==
    <<IndexHtml, MyFileCss, PackageJson, SrcDir, SrcIndexJsx, SrcIndexTsx, SrcMainJsx, SrcMainTsx,
      StyleCss>>

RECURSIVE JoinPath(_)
JoinPath(path) ==
    IF Len(path) = 1 THEN path[1] ELSE path[1] \o "/" \o JoinPath(Tail(path))

HtmlDoc == "<h1>hi</h1>"
PkgReact == "{\"dependencies\":{\"react\":\"18\"}}"
PkgReactVite == "{\"dependencies\":{\"react\":\"18\"},\"devDependencies\":{\"vite\":\"5\"}}"
PkgVue == "{\"dependencies\":{\"vue\":\"3\"}}"
PkgNextVite ==
    "{\"dependencies\":{\"next\":\"14\",\"react\":\"18\"},\"devDependencies\":{\"vite\":\"5\"}}"
PkgInvalid == "{"

\* JSON.parse on the manifests of the model: the dependency names each declares.
JSONParse(c) ==
    CASE c = PkgReact ->
           [ok |-> TRUE, dependencies |-> {"react"}, devDependencies |-> {}]
      [] c = PkgReactVite ->
           [ok |-> TRUE, dependencies |-> {"react"}, devDependencies |-> {"vite"}]
      [] c = PkgVue ->
           [ok |-> TRUE, dependencies |-> {"vue"}, devDependencies |-> {}]
      [] c = PkgNextVite ->
           [ok |-> TRUE, dependencies |-> {"next", "react"}, devDependencies |-> {"vite"}]
      [] OTHER ->
           [ok |-> FALSE, dependencies |-> {}, devDependencies |-> {}]

Obj(body) == [body |-> body, contentType |-> None]

FileKey(p, path) == <<p>> \o path
PreviewKey(p, b, path) == <<"previews", p, b>> \o path

R2Put(store, key, obj) ==
    [k \in DOMAIN store \cup {key} |-> IF k = key THEN obj ELSE store[k]]

R2Delete(store, key) ==
    [k \in DOMAIN store \ {key} |-> store[k]]

\* env.FILES.list({ prefix: `${projectId}/` }): the paths under the prefix, in key order.
R2List(store, p) ==
    SelectSeq(PathOrder, LAMBDA q : FileKey(p, q) \in DOMAIN store)

-----------------------------------------------------------------------------
(* BuildRunner: the synchronous pieces of executeBuild *)

NewBuild(id, p, t) ==
    [id |-> id, projectId |-> p, status |-> "pending", logs |-> <<>>,
     previewUrl |-> None, startedAt |-> t, completedAt |-> None, error |-> None]

\* A log write that replaces the list by the new line.
PushLogReplacing(build, msg) == [build EXCEPT !.logs = <<msg>>]

\* build.logs.push(`[${new Date().toISOString()}] ${msg}`): a line is kept as its
\* message, without the timestamp prefix.
PushLog(build, msg) == [build EXCEPT !.logs = Append(@, msg)]

Terminal(status) == status \in {"success", "failed"}

\* executeBuild up to its first await (FILES.list inside getProjectFiles).
ExecuteBuildStart(build) ==
    PushLog([build EXCEPT !.status = "installing"],
            "Starting build for project " \o build.projectId)

\* The catch block without its completedAt assignment.
CatchErrorWithoutCompletedAt(build, msg, t) ==
    PushLog([build EXCEPT !.status = "failed",
                          !.error = Some(msg)],
            "ERROR: " \o msg)

\* The catch block without its status assignment.
CatchErrorWithoutStatus(build, msg, t) ==
    PushLog([build EXCEPT !.error = Some(msg),
                          !.completedAt = Some(t)],
            "ERROR: " \o msg)

\* The catch block of executeBuild.
CatchError(build, msg, t) ==
    PushLog([build EXCEPT !.status = "failed",
                          !.error = Some(msg),
                          !.completedAt = Some(t)],
            "ERROR: " \o msg)

PreviewUrl(p, b) == "/preview/" \o p \o "/" \o b \o "/"

\* The success statements without the previewUrl assignment.
CompleteBuildWithoutUrl(build, t) ==
    LET url == "/preview/" \o build.projectId \o "/" \o build.id \o "/"
    IN  PushLog(PushLog([build EXCEPT !.status = "success",
                                      !.completedAt = Some(t)],
                        "Build completed successfully!"),
                "Preview URL: " \o url)

\* The statements after deployPreview returns.
CompleteBuild(build, t) ==
    LET url == PreviewUrl(build.projectId, build.id)
    IN  PushLog(PushLog([build EXCEPT !.status = "success",
                                      !.previewUrl = Some(url),
                                      !.completedAt = Some(t)],
                        "Build completed successfully!"),
                "Preview URL: " \o url)

HasPath(files, path) == \E i \in 1..Len(files) : files[i].path = path

\* Array.prototype.find: the first element with that path.
FindPath(files, path) ==
    files[CHOOSE i \in 1..Len(files) :
              /\ files[i].path = path
              /\ \A j \in 1..(i - 1) : files[j].path # path]

\* detectProjectType reading the bundler from pkg.dependencies only.
detectProjectTypeDependenciesOnly(files) ==
    LET pkg == IF HasPath(files, PackageJson)
               THEN JSONParse(FindPath(files, PackageJson).content)
               ELSE [ok |-> FALSE, dependencies |-> {}, devDependencies |-> {}]
        any == pkg.dependencies \cup pkg.devDependencies
    IN  IF pkg.ok /\ "react" \in any
        THEN IF "next" \in any THEN "nextjs"
             ELSE IF "vite" \in pkg.dependencies THEN "vite-react"
             ELSE "react"
        ELSE IF pkg.ok /\ "vue" \in any THEN "vue"
        ELSE IF pkg.ok /\ "svelte" \in any THEN "svelte"
        ELSE IF pkg.ok /\ "express" \in pkg.dependencies THEN "express"
        ELSE IF HasPath(files, IndexHtml) THEN "static"
        ELSE "unknown"

detectProjectType(files) ==
    LET pkg == IF HasPath(files, PackageJson)
               THEN JSONParse(FindPath(files, PackageJson).content)
               ELSE [ok |-> FALSE, dependencies |-> {}, devDependencies |-> {}]
        any == pkg.dependencies \cup pkg.devDependencies
    IN  IF pkg.ok /\ "react" \in any
        THEN IF "next" \in any THEN "nextjs"
             ELSE IF "vite" \in any THEN "vite-react"
             ELSE "react"
        ELSE IF pkg.ok /\ "vue" \in any THEN "vue"
        ELSE IF pkg.ok /\ "svelte" \in any THEN "svelte"
        ELSE IF pkg.ok /\ "express" \in pkg.dependencies THEN "express"
        ELSE IF HasPath(files, IndexHtml) THEN "static"
        ELSE "unknown"

installDependencies(content, build) ==
    LET pkg == JSONParse(content)
        n == Cardinality(pkg.dependencies \cup pkg.devDependencies)
    IN  IF pkg.ok
        THEN [ok |-> TRUE, error |-> "",
              build |-> PushLog(PushLog(build, "Dependencies to install: " \o ToString(n)),
                                "Using bundler for dependency resolution")]
        ELSE [ok |-> FALSE, build |-> build,
              error |-> "Failed to parse package.json: SyntaxError"]

\* Map.prototype.set on an insertion-ordered map kept as a sequence.
MapSet(m, path, content) ==
    IF \E i \in 1..Len(m) : m[i].path = path
    THEN [i \in 1..Len(m) |->
            IF m[i].path = path THEN [path |-> path, content |-> content] ELSE m[i]]
    ELSE Append(m, [path |-> path, content |-> content])

RECURSIVE CopyAll(_, _)
CopyAll(m, files) ==
    IF files = <<>> THEN m
    ELSE CopyAll(MapSet(m, Head(files).path, Head(files).content), Tail(files))

EntryPaths == {SrcMainTsx, SrcMainJsx, SrcIndexTsx, SrcIndexJsx}

createHTMLWrapper(files, entryPath) ==
    IF HasPath(files, IndexHtml)
    THEN FindPath(files, IndexHtml).content
    ELSE "<!DOCTYPE html><script type=\"module\">import \""
         \o JoinPath(entryPath) \o "\";</script><div id=\"root\"></div>"

buildProject(files, projectType, build) ==
    IF projectType = "static"
    THEN [ok |-> TRUE, error |-> "", build |-> build, out |-> CopyAll(<<>>, files)]
    ELSE IF projectType \in {"vite-react", "react"}
    THEN LET b1 == PushLog(build, "Building React application...")
             entries == SelectSeq(files, LAMBDA f : f.path \in EntryPaths)
         IN  IF entries = <<>>
             THEN [ok |-> FALSE, build |-> b1, out |-> <<>>,
                   error |-> "No entry file found (main.tsx, index.tsx, etc.)"]
             ELSE [ok |-> TRUE, error |-> "", build |-> b1,
                   out |-> CopyAll(MapSet(<<>>, IndexHtml,
                                          createHTMLWrapper(files, Head(entries).path)),
                                   files)]
    ELSE [ok |-> TRUE, error |-> "", build |-> build, out |-> <<>>]

\* executeBuild from the return of getProjectFiles to its next suspension:
\* the first FILES.put of deployPreview, or the end of the task.
RunPhases(build, files, t) ==
    LET b1 == PushLog(build, "Found " \o ToString(Len(files)) \o " files")
        projectType == detectProjectType(files)
        b2 == PushLog(b1, "Detected project type: " \o projectType)
        hasPkg == HasPath(files, PackageJson)
        inst == IF hasPkg
                THEN installDependencies(FindPath(files, PackageJson).content,
                                         PushLog(b2, "Installing dependencies..."))
                ELSE [ok |-> TRUE, error |-> "", build |-> b2]
        b3 == PushLog([inst.build EXCEPT !.status = "building"], "Building project...")
        res == buildProject(files, projectType, b3)
    IN  IF ~inst.ok
        THEN [pc |-> "done", out |-> <<>>, build |-> CatchError(inst.build, inst.error, t)]
        ELSE IF ~res.ok
        THEN [pc |-> "done", out |-> <<>>, build |-> CatchError(res.build, res.error, t)]
        ELSE IF res.out = <<>>
        THEN [pc |-> "done", out |-> <<>>, build |-> CompleteBuild(res.build, t)]
        ELSE [pc |-> "put", out |-> res.out, build |-> res.build]

Ext(path) ==
    LET name == path[Len(path)]
    IN  CASE name \in {"index.html"} -> "html"
          [] name \in {"style.css", "my file.css"} -> "css"
          [] name \in {"package.json"} -> "json"
          [] name \in {"main.tsx", "index.tsx"} -> "tsx"
          [] name \in {"main.jsx", "index.jsx"} -> "jsx"
          [] OTHER -> name

getContentType(path) ==
    LET ext == Ext(path)
    IN  CASE ext = "html" -> "text/html"
          [] ext = "css" -> "text/css"
          [] ext = "js" -> "application/javascript"
          [] ext = "json" -> "application/json"
          [] ext = "png" -> "image/png"
          [] ext \in {"jpg", "jpeg"} -> "image/jpeg"
          [] ext = "gif" -> "image/gif"
          [] ext = "svg" -> "image/svg+xml"
          [] ext = "ico" -> "image/x-icon"
          [] OTHER -> "text/plain"

IdleTask == [pc |-> "done", todo |-> <<>>, files |-> <<>>, out |-> <<>>]

-----------------------------------------------------------------------------
(* BuildRunner: the handlers and the steps of the detached task.  d names the *)
(* BuildRunner instance; an instance not yet in builds has an empty Map.       *)

BuildsOf(d) == IF d \in DOMAIN builds THEN builds[d] ELSE <<>>
TasksOf(d) == IF d \in DOMAIN task THEN task[d] ELSE <<>>

MapPut(m, k, v) == [x \in DOMAIN m \cup {k} |-> IF x = k THEN v ELSE m[x]]

\* startBuild, with executeBuild run up to its first await before
\* Response.json(build) serialises the record.
startBuild(d, p) ==
    /\ nextBuild < MaxBuilds
    /\ LET id == BuildId(nextBuild + 1)
           build == ExecuteBuildStart(NewBuild(id, p, now))
       IN  /\ builds' = MapPut(builds, d, MapPut(BuildsOf(d), id, build))
           /\ task' = MapPut(task, d, MapPut(TasksOf(d), id, [IdleTask EXCEPT !.pc = "list"]))
           /\ resp' = [op |-> "startBuild", id |-> id, status |-> 200, body |-> build]
    /\ nextBuild' = nextBuild + 1
    /\ UNCHANGED <<now, r2, sql, nextId, calls, history, page>>

getBuildStatus(d, b) ==
    /\ resp' = IF b \in DOMAIN BuildsOf(d)
               THEN [op |-> "getBuildStatus", id |-> b, status |-> 200,
                     body |-> builds[d][b]]
               ELSE [op |-> "getBuildStatus", id |-> b, status |-> 404,
                     body |-> [error |-> "Build not found"]]
    /\ UNCHANGED <<now, r2, builds, task, nextBuild, sql, nextId, calls, history, page>>

\* streamBuildLogs: the ReadableStream's start callback enqueues the buffered
\* lines and closes the stream if the build is terminal; nothing else holds the
\* controller, so a stream left open at that point stays open.
streamBuildLogs(d, b) ==
    IF b \in DOMAIN BuildsOf(d)
    THEN [status |-> 200,
          body |-> [stream |-> builds[d][b].logs,
                    closed |-> Terminal(builds[d][b].status)]]
    ELSE [status |-> 404, body |-> [error |-> "Build not found"]]

\* The methods a request for /build/:id/logs is made with.
Methods == {"GET", "POST"}

\* BuildRunner.fetch on the path /build/:id/logs: the GET test of the status
\* route comes first, the /logs test second.
fetchBuildLogs(d, b, method) ==
    LET r == IF method = "GET"
             THEN IF b \in DOMAIN BuildsOf(d)
                  THEN [status |-> 200, body |-> builds[d][b]]
                  ELSE [status |-> 404, body |-> [error |-> "Build not found"]]
             ELSE streamBuildLogs(d, b)
    IN  /\ resp' = [op |-> "getLogs", id |-> b, status |-> r.status, body |-> r.body]
        /\ UNCHANGED <<now, r2, builds, task, nextBuild, sql, nextId, calls, history, page>>

\* cancelBuild without its status test.
cancelBuildAlways(build, t) ==
    PushLog([build EXCEPT !.status = "failed",
                          !.error = Some("Build cancelled by user"),
                          !.completedAt = Some(t)],
            "Build cancelled")

cancelBuildRecord(build, t) ==
    IF build.status \in {"pending", "installing", "building"}
    THEN PushLog([build EXCEPT !.status = "failed",
                               !.error = Some("Build cancelled by user"),
                               !.completedAt = Some(t)],
                 "Build cancelled")
    ELSE build

cancelBuild(d, b) ==
    /\ IF b \in DOMAIN BuildsOf(d)
       THEN /\ builds' = [builds EXCEPT ![d][b] = cancelBuildRecord(@, now)]
            /\ resp' = [op |-> "cancelBuild", id |-> b, status |-> 200,
                        body |-> cancelBuildRecord(builds[d][b], now)]
       ELSE /\ resp' = [op |-> "cancelBuild", id |-> b, status |-> 404,
                        body |-> [error |-> "Build not found"]]
            /\ UNCHANGED builds
    /\ UNCHANGED <<now, r2, task, nextBuild, sql, nextId, calls, history, page>>

\* POST /build on the instance
StartBuild(p) == startBuild(TheRunner, p) /\ UNCHANGED nextDo

\* GET /build/:id on the instance
GetBuildStatus(b) == getBuildStatus(TheRunner, b) /\ UNCHANGED nextDo

\* DELETE /build/:id on the instance
CancelBuild(b) == cancelBuild(TheRunner, b) /\ UNCHANGED nextDo

\* A request for /build/:id/logs on the instance
GetBuildLogs(b, method) == fetchBuildLogs(TheRunner, b, method) /\ UNCHANGED nextDo

\* FILES.list resolves.
ExecList(d, b) ==
    /\ d \in DOMAIN task
    /\ b \in DOMAIN task[d]
    /\ task[d][b].pc = "list"
    /\ LET keys == R2List(r2, builds[d][b].projectId)
       IN  IF keys = <<>>
           THEN LET r == RunPhases(builds[d][b], <<>>, now)
                IN  /\ builds' = [builds EXCEPT ![d][b] = r.build]
                    /\ task' = [task EXCEPT ![d][b] = [IdleTask EXCEPT !.pc = r.pc,
                                                                        !.out = r.out]]
           ELSE /\ task' = [task EXCEPT ![d][b].pc = "get", ![d][b].todo = keys]
                /\ UNCHANGED builds
    /\ UNCHANGED <<now, r2, nextBuild, nextDo, resp, sql, nextId, calls, history, page>>

\* One FILES.get (and text()) of the getProjectFiles loop resolves.
ExecGet(d, b) ==
    /\ d \in DOMAIN task
    /\ b \in DOMAIN task[d]
    /\ task[d][b].pc = "get"
    /\ LET path == Head(task[d][b].todo)
           key == FileKey(builds[d][b].projectId, path)
           files == IF key \in DOMAIN r2
                    THEN Append(task[d][b].files,
                                [path |-> path, content |-> r2[key].body])
                    ELSE task[d][b].files
           rest == Tail(task[d][b].todo)
       IN  IF rest = <<>>
           THEN LET r == RunPhases(builds[d][b], files, now)
                IN  /\ builds' = [builds EXCEPT ![d][b] = r.build]
                    /\ task' = [task EXCEPT ![d][b] = [pc |-> r.pc, todo |-> <<>>,
                                                       files |-> files, out |-> r.out]]
           ELSE /\ task' = [task EXCEPT ![d][b].todo = rest, ![d][b].files = files]
                /\ UNCHANGED builds
    /\ UNCHANGED <<now, r2, nextBuild, nextDo, resp, sql, nextId, calls, history, page>>

\* One FILES.put of deployPreview resolves.
ExecPut(d, b) ==
    /\ d \in DOMAIN task
    /\ b \in DOMAIN task[d]
    /\ task[d][b].pc = "put"
    /\ LET f == Head(task[d][b].out)
           rest == Tail(task[d][b].out)
       IN  /\ r2' = R2Put(r2, PreviewKey(builds[d][b].projectId, b, f.path),
                          [body |-> f.content,
                           contentType |-> Some(getContentType(f.path))])
           /\ IF rest = <<>>
              THEN /\ builds' = [builds EXCEPT ![d][b] = CompleteBuild(@, now)]
                   /\ task' = [task EXCEPT ![d][b].pc = "done", ![d][b].out = rest]
              ELSE /\ task' = [task EXCEPT ![d][b].out = rest]
                   /\ UNCHANGED builds
    /\ UNCHANGED <<now, nextBuild, nextDo, resp, sql, nextId, calls, history, page>>

\* The awaited R2 call rejects: the catch block runs.
ExecStoreFailure(d, b) ==
    /\ d \in DOMAIN task
    /\ b \in DOMAIN task[d]
    /\ task[d][b].pc \in {"list", "get", "put"}
    /\ builds' = [builds EXCEPT ![d][b] = CatchError(@, "R2 error", now)]
    /\ task' = [task EXCEPT ![d][b].pc = "done"]
    /\ UNCHANGED <<now, r2, nextBuild, nextDo, resp, sql, nextId, calls, history, page>>

Tick ==
    /\ now < MaxClock
    /\ now' = now + 1
    /\ UNCHANGED <<r2, builds, task, nextBuild, nextDo, resp, sql, nextId, calls, history, page>>

-----------------------------------------------------------------------------
(* The worker's build routes (server.ts): every request under /api/build is   *)
(* forwarded to the BuildRunner instance named by a fresh crypto.randomUUID(). *)

ApiStartBuild(p) ==
    /\ nextDo < MaxRequests
    /\ startBuild(DoName(nextDo + 1), p)
    /\ nextDo' = nextDo + 1

ApiGetBuildStatus(b) ==
    /\ nextDo < MaxRequests
    /\ getBuildStatus(DoName(nextDo + 1), b)
    /\ nextDo' = nextDo + 1

ApiCancelBuild(b) ==
    /\ nextDo < MaxRequests
    /\ cancelBuild(DoName(nextDo + 1), b)
    /\ nextDo' = nextDo + 1

-----------------------------------------------------------------------------
(* The content store a build starts from *)

StoreOf(p, files) ==
    [k \in {FileKey(p, f[1]) : f \in files} |->
        Obj((CHOOSE f \in files : FileKey(p, f[1]) = k)[2])]

SeedStores ==
    { StoreOf("p1", {}),
      StoreOf("p1", {<<IndexHtml, HtmlDoc>>, <<StyleCss, "x">>}),
      StoreOf("p1", {<<PackageJson, PkgReact>>, <<SrcMainTsx, "x">>}),
      StoreOf("p1", {<<PackageJson, PkgReactVite>>, <<StyleCss, "x">>}),
      StoreOf("p1", {<<PackageJson, PkgVue>>, <<StyleCss, "x">>}),
      StoreOf("p1", {<<PackageJson, PkgNextVite>>, <<StyleCss, "x">>}),
      StoreOf("p1", {<<StyleCss, "x">>}),
      StoreOf("p1", {<<PackageJson, PkgInvalid>>}) }

NoResp == [op |-> "none", id |-> "", status |-> 0, body |-> [error |-> ""]]

InitBuild ==
    /\ now = 1
    /\ r2 \in SeedStores
    /\ builds = <<>>
    /\ task = <<>>
    /\ nextBuild = 0
    /\ nextDo = 0
    /\ sql = <<>>
    /\ nextId = 0
    /\ calls = <<>>
    /\ history = {}
    /\ page = NoPage
    /\ resp = NoResp

Runners == {TheRunner} \cup {DoName(n) : n \in 1..MaxRequests}

\* One BuildRunner instance, its routes called directly.
NextBuild ==
    \/ \E p \in BuildProjects : StartBuild(p)
    \/ \E d \in Runners, b \in BuildIds : ExecList(d, b)
    \/ \E d \in Runners, b \in BuildIds : ExecGet(d, b)
    \/ \E d \in Runners, b \in BuildIds : ExecPut(d, b)
    \/ \E d \in Runners, b \in BuildIds : ExecStoreFailure(d, b)
    \/ \E b \in BuildIds : GetBuildStatus(b)
    \/ \E b \in BuildIds : CancelBuild(b)
    \/ \E b \in BuildIds, method \in Methods : GetBuildLogs(b, method)
    \/ Tick

SpecBuild == InitBuild /\ [][NextBuild]_vars

\* The build interface as the worker exposes it under /api/build.
NextApi ==
    \/ \E p \in BuildProjects : ApiStartBuild(p)
    \/ \E b \in BuildIds : ApiGetBuildStatus(b)
    \/ \E b \in BuildIds : ApiCancelBuild(b)
    \/ \E d \in Runners, b \in BuildIds : ExecList(d, b)
    \/ \E d \in Runners, b \in BuildIds : ExecGet(d, b)
    \/ \E d \in Runners, b \in BuildIds : ExecPut(d, b)
    \/ \E d \in Runners, b \in BuildIds : ExecStoreFailure(d, b)
    \/ Tick

SpecApi == InitBuild /\ [][NextApi]_vars

-----------------------------------------------------------------------------
(* ProjectManager (project-manager.ts): the handlers, as functions of the     *)
(* instance's SQLite storage db = [projects, files] and the R2 bucket.  Each  *)
(* returns the storage and bucket it leaves, and the Response it produces.    *)
(* fail says that the handler's R2 call rejects.                               *)

\* The one-character string U+00E9: one UTF-16 code unit, two UTF-8 bytes.
EAcute == "<U+00E9>"

\* new TextEncoder().encode(content).length
ByteLength(c) == IF c = EAcute THEN 2 ELSE Len(c)

\* content.length
StrLength(c) == IF c = EAcute THEN 1 ELSE Len(c)

NoDb == [projects |-> {}, files |-> {}]
DbOf(d) == IF d \in DOMAIN sql THEN sql[d] ELSE NoDb

RowId(n) == "id" \o ToString(n)

\* path.split("/").pop()
BaseName(path) == path[Len(path)]

\* SELECT * FROM files WHERE project_id = ? AND path = ?
FilesAt(db, p, path) == {f \in db.files : f.project_id = p /\ f.path = path}

Result(db, store, status, body) ==
    [db |-> db, store |-> store, status |-> status, body |-> body]

\* UPDATE projects SET updated_at = ? WHERE id = ?
TouchProject(db, p, t) ==
    [db EXCEPT !.projects =
        {IF pr.id = p THEN [pr EXCEPT !.updated_at = t] ELSE pr : pr \in @}]

\* `x || dflt` on an optional value
OrElse(opt, dflt) == IF opt = None THEN dflt ELSE opt[1]

\* The files table, were it declared without UNIQUE(project_id, path).
NoUniqueConstraint(db, p, path) == FALSE

\* UNIQUE(project_id, path): an INSERT of a row for (p, path) is refused.
UniqueViolated(db, p, path) == FilesAt(db, p, path) # {}

\* data: [path, name, type, parent_path, size, content], the last three optional.
pmCreateFile(db, store, id, t, p, data, fail) ==
    IF UniqueViolated(db, p, data.path)
    THEN \* INSERT violates UNIQUE(project_id, path): sql.exec throws, fetch answers 500
         Result(db, store, 500,
                [error |-> "UNIQUE constraint failed: files.project_id, files.path"])
    ELSE LET size == OrElse(data.size, 0)
             row == [id |-> id, project_id |-> p, path |-> data.path,
                     name |-> data.name, type |-> data.type,
                     parent_path |-> data.parent_path, size |-> size,
                     created_at |-> t, updated_at |-> t]
             db1 == [db EXCEPT !.files = @ \cup {row}]
         IN  IF data.type = "file" /\ fail
             THEN Result(db1, store, 500, [error |-> "R2 error"])
             ELSE Result(TouchProject(db1, p, t),
                         IF data.type = "file"
                         THEN R2Put(store, FileKey(p, data.path),
                                    Obj(OrElse(data.content, "")))
                         ELSE store,
                         200, row)

\* The size updateFile stores, were it taken from content.length.
SizeAsLength(c) == StrLength(c)

SizeOf(c) == ByteLength(c)

\* updateFile, were its UPDATE to set created_at in place of updated_at.
pmUpdateFileSetsCreatedAt(db, store, t, p, path, content, fail) ==
    IF FilesAt(db, p, path) = {}
    THEN Result(db, store, 404, [error |-> "File not found"])
    ELSE IF fail
    THEN Result(db, store, 500, [error |-> "R2 error"])
    ELSE LET file == CHOOSE f \in FilesAt(db, p, path) : TRUE
             updated == [file EXCEPT !.size = ByteLength(content), !.created_at = t]
             db1 == [db EXCEPT !.files =
                        {IF f.id = file.id THEN updated ELSE f : f \in @}]
         IN  Result(TouchProject(db1, p, t),
                    R2Put(store, FileKey(p, path), Obj(content)),
                    200, [file |-> updated, content |-> content])

pmUpdateFile(db, store, t, p, path, content, fail) ==
    IF FilesAt(db, p, path) = {}
    THEN Result(db, store, 404, [error |-> "File not found"])
    ELSE IF fail
    THEN Result(db, store, 500, [error |-> "R2 error"])
    ELSE LET file == CHOOSE f \in FilesAt(db, p, path) : TRUE
             updated == [file EXCEPT !.size = SizeOf(content), !.updated_at = t]
             db1 == [db EXCEPT !.files =
                        {IF f.id = file.id THEN updated ELSE f : f \in @}]
         IN  Result(TouchProject(db1, p, t),
                    R2Put(store, FileKey(p, path), Obj(content)),
                    200, [file |-> updated, content |-> content])

\* The handler deleteFile, were it to answer success and delete nothing.
pmDeleteFileKeepsAll(db, store, t, p, path, fail) ==
    IF FilesAt(db, p, path) = {}
    THEN Result(db, store, 404, [error |-> "File not found"])
    ELSE Result(db, store, 200, [success |-> TRUE])

pmDeleteFile(db, store, t, p, path, fail) ==
    IF FilesAt(db, p, path) = {}
    THEN Result(db, store, 404, [error |-> "File not found"])
    ELSE IF fail
    THEN Result(db, store, 500, [error |-> "R2 error"])
    ELSE LET file == CHOOSE f \in FilesAt(db, p, path) : TRUE
             db1 == [db EXCEPT !.files = {f \in @ : f.id # file.id}]
         IN  Result(TouchProject(db1, p, t),
                    R2Delete(store, FileKey(p, path)),
                    200, [success |-> TRUE])

pmGetFile(db, store, p, path, fail) ==
    IF FilesAt(db, p, path) = {}
    THEN Result(db, store, 404, [error |-> "File not found"])
    ELSE IF fail
    THEN Result(db, store, 500, [error |-> "R2 error"])
    ELSE IF FileKey(p, path) \notin DOMAIN store
    THEN Result(db, store, 404, [error |-> "File content not found"])
    ELSE Result(db, store, 200,
                [file |-> CHOOSE f \in FilesAt(db, p, path) : TRUE,
                 content |-> store[FileKey(p, path)].body])

\* The listings of S a query may return under ORDER BY, rank giving each row's
\* place under the sort key (ascending): rows of equal rank come in any order.
OrderedListings(S, rank) ==
    {s \in [1..Cardinality(S) -> S] :
        /\ \A i, j \in DOMAIN s : i # j => s[i] # s[j]
        /\ \A i, j \in DOMAIN s : i < j => rank[s[i]] <= rank[s[j]]}

\* The position of a file name in the model's names under ASC.
NameRank(name) == CHOOSE i \in 1..Len(PathOrder) : BaseName(PathOrder[i]) = name

\* SELECT * FROM files WHERE project_id = ? ORDER BY type DESC, name ASC
pmGetFileTree(db, store, p) ==
    LET rows == {f \in db.files : f.project_id = p}
        typeDesc(f) == IF f.type = "file" THEN 0 ELSE 1
    IN  {Result(db, store, 200, [rows |-> listing]) :
            listing \in OrderedListings(rows,
                [f \in rows |-> typeDesc(f) * (Len(PathOrder) + 1) + NameRank(f.name)])}

-----------------------------------------------------------------------------
(* The code tools (code-tools.ts).  Each works on the bucket directly and on  *)
(* the ProjectManager instance named by the project id.  failAt numbers the   *)
(* R2 call that rejects, counting the tool's own calls and those of the       *)
(* handlers it invokes in the order they are made; 0 is no failure.           *)

ToolResult(db, store, success, error) ==
    [db |-> db, store |-> store, success |-> success, error |-> error]

toolWriteFile(db, store, t, p, path, content, failAt) ==
    IF failAt = 1
    THEN ToolResult(db, store, FALSE, "R2 error")
    ELSE LET store1 == R2Put(store, FileKey(p, path), Obj(content))
             r == pmUpdateFile(db, store1, t, p, path, content, failAt = 2)
         IN  IF r.status # 200
             THEN ToolResult(r.db, r.store, FALSE, "Failed to update file metadata")
             ELSE ToolResult(r.db, r.store, TRUE, "")

\* path.split("/").slice(0, -1).join("/") || null
ParentPath(path) ==
    IF Len(path) = 1 THEN None ELSE Some(SubSeq(path, 1, Len(path) - 1))

toolCreateFile(db, store, id, t, p, path, type, content, failAt) ==
    LET data == [path |-> path, name |-> BaseName(path), type |-> type,
                 parent_path |-> ParentPath(path),
                 size |-> Some(IF type = "file" THEN StrLength(content) ELSE 0),
                 content |-> None]
        r == pmCreateFile(db, store, id, t, p, data, failAt = 1)
    IN  IF r.status # 200
        THEN ToolResult(r.db, r.store, FALSE, "Failed to create file")
        ELSE IF type = "file" /\ failAt = 2
        THEN ToolResult(r.db, r.store, FALSE, "R2 error")
        ELSE ToolResult(r.db,
                        IF type = "file"
                        THEN R2Put(r.store, FileKey(p, path), Obj(content))
                        ELSE r.store,
                        TRUE, "")

toolDeleteFile(db, store, t, p, path, failAt) ==
    LET r == pmDeleteFile(db, store, t, p, path, failAt = 1)
    IN  IF r.status # 200
        THEN ToolResult(r.db, r.store, FALSE, "Failed to delete file")
        ELSE ToolResult(r.db, r.store, TRUE, "")

\* moveFile and renameFile after the destination path is known: read the
\* source blob, write it under the destination key, delete the source key,
\* then DELETE the source's metadata and PUT the destination's, ignoring both
\* responses.
MoveBlobAndMetadata(db, store, t, p, from, to, failAt, notFound) ==
    IF failAt = 1
    THEN ToolResult(db, store, FALSE, "R2 error")
    ELSE IF FileKey(p, from) \notin DOMAIN store
    THEN ToolResult(db, store, FALSE, notFound)
    ELSE LET content == store[FileKey(p, from)].body
             store1 == R2Put(store, FileKey(p, to), Obj(content))
             store2 == R2Delete(store1, FileKey(p, from))
             del == pmDeleteFile(db, store2, t, p, from, failAt = 4)
             put == pmUpdateFile(del.db, del.store, t, p, to, content, failAt = 5)
         IN  IF failAt = 2 THEN ToolResult(db, store, FALSE, "R2 error")
             ELSE IF failAt = 3 THEN ToolResult(db, store1, FALSE, "R2 error")
             ELSE ToolResult(put.db, put.store, TRUE, "")

toolMoveFile(db, store, t, p, sourcePath, destinationPath, failAt) ==
    MoveBlobAndMetadata(db, store, t, p, sourcePath, destinationPath, failAt,
                        "Source file not found")

\* pathParts[pathParts.length - 1] = newName
RenamedPath(filePath, newName) ==
    [i \in 1..Len(filePath) |-> IF i = Len(filePath) THEN newName ELSE filePath[i]]

toolRenameFile(db, store, t, p, filePath, newName, failAt) ==
    MoveBlobAndMetadata(db, store, t, p, filePath, RenamedPath(filePath, newName),
                        failAt, "File not found")

\* String.prototype.includes and replace, on the one-unit contents of the model
\* and a non-empty oldContent.
Includes(current, old) == current = old
Replace(current, old, new) == IF current = old THEN new ELSE current

toolEditFile(db, store, t, p, path, old, new, failAt) ==
    IF failAt = 1
    THEN ToolResult(db, store, FALSE, "R2 error")
    ELSE IF FileKey(p, path) \notin DOMAIN store
    THEN ToolResult(db, store, FALSE, "File not found")
    ELSE IF ~Includes(store[FileKey(p, path)].body, old)
    THEN ToolResult(db, store, FALSE, "Old content not found in file")
    ELSE IF failAt = 2
    THEN ToolResult(db, store, FALSE, "R2 error")
    ELSE LET updated == Replace(store[FileKey(p, path)].body, old, new)
             store1 == R2Put(store, FileKey(p, path), Obj(updated))
             r == pmUpdateFile(db, store1, t, p, path, updated, failAt = 3)
         IN  IF r.status # 200
             THEN ToolResult(r.db, r.store, FALSE, "Failed to update file metadata")
             ELSE ToolResult(r.db, r.store, TRUE, "")

-----------------------------------------------------------------------------
(* One project's files: requests to the ProjectManager instance named by the  *)
(* project id (as the editor sends them with X-DO-ID and the tools with       *)
(* idFromName), and tool calls.                                                *)

TheProject == "p1"
FilePaths == {IndexHtml, StyleCss}
FileNames == {BaseName(path) : path \in FilePaths}
FileContents == {"x", EAcute}
CallerSizes == {None}
\* data.content of a createFile request: omitted or given
InitialContents == {None, Some("x")}

buildState == <<builds, task, nextBuild, nextDo, calls, history, page>>

\* The instance's storage and the bucket after a handler or tool returned r.
Commit(d, r) ==
    /\ sql' = MapPut(sql, d, r.db)
    /\ r2' = r.store

\* What the model keeps of a Response: its status, and its body for a read.
HttpResp(op, path, r) ==
    [op |-> op, id |-> path, status |-> r.status,
     body |-> IF op \in {"getFile", "getFileTree"} THEN r.body ELSE [error |-> ""]]

\* What the model keeps of a tool's result: which tool, and its success flag.
ToolResp(op, path, r) ==
    [op |-> op, id |-> <<>>, status |-> IF r.success THEN 200 ELSE 500,
     body |-> [success |-> r.success]]

\* POST /projects/:id/files
CreateFile(path, type, content, size, fail) ==
    /\ nextId < MaxFiles
    /\ \E r \in {pmCreateFile(DbOf(TheProject), r2, RowId(nextId + 1), now, TheProject,
                             [path |-> path, name |-> BaseName(path), type |-> type,
                              parent_path |-> ParentPath(path), size |-> size,
                              content |-> content],
                             fail)} :
           Commit(TheProject, r) /\ resp' = HttpResp("createFile", path, r)
    /\ nextId' = nextId + 1
    /\ UNCHANGED <<now, buildState>>

\* PUT /projects/:id/files/:path
UpdateFile(path, content, fail) ==
    /\ \E r \in {pmUpdateFile(DbOf(TheProject), r2, now, TheProject, path, content, fail)} :
           Commit(TheProject, r) /\ resp' = HttpResp("updateFile", path, r)
    /\ UNCHANGED <<now, nextId, buildState>>

\* DELETE /projects/:id/files/:path
DeleteFile(path, fail) ==
    /\ \E r \in {pmDeleteFile(DbOf(TheProject), r2, now, TheProject, path, fail)} :
           Commit(TheProject, r) /\ resp' = HttpResp("deleteFile", path, r)
    /\ UNCHANGED <<now, nextId, buildState>>

\* GET /projects/:id/files/:path
GetFile(path, fail) ==
    /\ \E r \in {pmGetFile(DbOf(TheProject), r2, TheProject, path, fail)} :
           Commit(TheProject, r) /\ resp' = HttpResp("getFile", path, r)
    /\ UNCHANGED <<now, nextId, buildState>>

\* GET /projects/:id/files
GetFileTree ==
    /\ \E r \in pmGetFileTree(DbOf(TheProject), r2, TheProject) :
           Commit(TheProject, r) /\ resp' = HttpResp("getFileTree", <<>>, r)
    /\ UNCHANGED <<now, nextId, buildState>>

WriteFileTool(path, content, failAt) ==
    /\ \E r \in {toolWriteFile(DbOf(TheProject), r2, now, TheProject, path, content, failAt)} :
           Commit(TheProject, r) /\ resp' = ToolResp("tool.writeFile", path, r)
    /\ UNCHANGED <<now, nextId, buildState>>

EditFileTool(path, old, new, failAt) ==
    /\ \E r \in {toolEditFile(DbOf(TheProject), r2, now, TheProject, path, old, new, failAt)} :
           Commit(TheProject, r) /\ resp' = ToolResp("tool.editFile", path, r)
    /\ UNCHANGED <<now, nextId, buildState>>

CreateFileTool(path, type, content, failAt) ==
    /\ nextId < MaxFiles
    /\ \E r \in {toolCreateFile(DbOf(TheProject), r2, RowId(nextId + 1), now,
                               TheProject, path, type, content, failAt)} :
           Commit(TheProject, r) /\ resp' = ToolResp("tool.createFile", path, r)
    /\ nextId' = nextId + 1
    /\ UNCHANGED <<now, buildState>>

DeleteFileTool(path, failAt) ==
    /\ \E r \in {toolDeleteFile(DbOf(TheProject), r2, now, TheProject, path, failAt)} :
           Commit(TheProject, r) /\ resp' = ToolResp("tool.deleteFile", path, r)
    /\ UNCHANGED <<now, nextId, buildState>>

MoveFileTool(from, to, failAt) ==
    /\ \E r \in {toolMoveFile(DbOf(TheProject), r2, now, TheProject, from, to, failAt)} :
           Commit(TheProject, r) /\ resp' = ToolResp("tool.moveFile", from, r)
    /\ UNCHANGED <<now, nextId, buildState>>

RenameFileTool(path, newName, failAt) ==
    /\ \E r \in {toolRenameFile(DbOf(TheProject), r2, now, TheProject, path, newName,
                               failAt)} :
           Commit(TheProject, r) /\ resp' = ToolResp("tool.renameFile", path, r)
    /\ UNCHANGED <<now, nextId, buildState>>

InitFiles ==
    /\ now = 1
    /\ r2 = <<>>
    /\ builds = <<>>
    /\ task = <<>>
    /\ nextBuild = 0
    /\ nextDo = 0
    /\ sql = <<>>
    /\ nextId = 0
    /\ calls = <<>>
    /\ history = {}
    /\ page = NoPage
    /\ resp = NoResp

\* The ProjectManager instance of one project, its file routes called directly.
NextFiles ==
    \/ \E path \in FilePaths, type \in {"file", "directory"},
          content \in InitialContents,
          size \in CallerSizes, fail \in BOOLEAN :
            CreateFile(path, type, content, size, fail)
    \/ \E path \in FilePaths, content \in FileContents, fail \in BOOLEAN :
            UpdateFile(path, content, fail)
    \/ \E path \in FilePaths, fail \in BOOLEAN : DeleteFile(path, fail)
    \/ \E path \in FilePaths, fail \in BOOLEAN : GetFile(path, fail)
    \/ GetFileTree
    \/ Tick

SpecFiles == InitFiles /\ [][NextFiles]_vars

\* The code tools working on one project.
NextTools ==
    \/ \E path \in FilePaths, type \in {"file", "directory"},
          content \in {"", EAcute}, failAt \in 0..2 :
            CreateFileTool(path, type, content, failAt)
    \/ \E path \in FilePaths, content \in FileContents, failAt \in 0..2 :
            WriteFileTool(path, content, failAt)
    \/ \E path \in FilePaths, old \in FileContents, failAt \in 0..3 :
            \E new \in FileContents \ {old} : EditFileTool(path, old, new, failAt)
    \/ \E path \in FilePaths, failAt \in 0..1 : DeleteFileTool(path, failAt)
    \/ \E from \in FilePaths, to \in FilePaths, failAt \in 0..5 :
            MoveFileTool(from, to, failAt)
    \/ \E path \in FilePaths, failAt \in 0..5 :
            \E newName \in FileNames \ {BaseName(path)} :
                RenameFileTool(path, newName, failAt)
    \/ Tick

SpecTools == InitFiles /\ [][NextTools]_vars

-----------------------------------------------------------------------------
(* The worker's project API (server.ts): the session's user id is required,   *)
(* the X-DO-ID header names the ProjectManager instance (a fresh random name  *)
(* without it), and the request is forwarded with X-User-Id set.  The editor  *)
(* sends "global" for the project list and the project id for a project.      *)

MaxProjects == 1

Users == {"alice", "bob"}
Sessions == {None} \cup {Some(u) : u \in Users}
GlobalDo == "global"
ProjectId(n) == "p" \o ToString(n)
ApiProjects == {ProjectId(n) : n \in 1..MaxProjects}
\* The editor sends X-DO-ID with every request.
DoHeaders == {Some(GlobalDo)} \cup {Some(p) : p \in ApiProjects}
ApiPaths == {IndexHtml}
ApiContents == {"x"}

\* Every project row of every instance.
AllProjects == UNION {sql[d].projects : d \in DOMAIN sql}

Unauthorized == [status |-> 401, body |-> [error |-> "Unauthorized"]]

\* getProjects, were it to select without WHERE user_id = ?.
pmGetProjectsOfAll(db, store, userId) ==
    {Result(db, store, 200, [rows |-> listing]) :
        listing \in OrderedListings(db.projects,
                                    [pr \in db.projects |-> 0 - pr.updated_at])}

\* SELECT * FROM projects WHERE user_id = ? ORDER BY updated_at DESC
\* (the body's array is the field rows)
pmGetProjects(db, store, userId) ==
    LET rows == {pr \in db.projects : pr.user_id = userId}
    IN  {Result(db, store, 200, [rows |-> listing]) :
            listing \in OrderedListings(rows, [pr \in rows |-> 0 - pr.updated_at])}

pmCreateProject(db, store, id, t, data, userId) ==
    LET project == [id |-> id, name |-> data.name, description |-> data.description,
                    user_id |-> userId, created_at |-> t, updated_at |-> t]
    IN  Result([db EXCEPT !.projects = @ \cup {project}], store, 200, project)

pmGetProject(db, store, p) ==
    IF \E pr \in db.projects : pr.id = p
    THEN Result(db, store, 200, CHOOSE pr \in db.projects : pr.id = p)
    ELSE Result(db, store, 404, [error |-> "Project not found"])

\* ProjectManager.fetch, GET /projects: X-User-Id is required.
fetchGetProjects(db, store, userId) ==
    IF userId = None
    THEN {Result(db, store, Unauthorized.status, Unauthorized.body)}
    ELSE pmGetProjects(db, store, userId[1])

\* ProjectManager.fetch, POST /projects: X-User-Id is required.
fetchCreateProject(db, store, id, t, data, userId) ==
    IF userId = None
    THEN Result(db, store, Unauthorized.status, Unauthorized.body)
    ELSE pmCreateProject(db, store, id, t, data, userId[1])

\* The instance idFromName(doId) selects.
TargetDo(h) == IF h = None THEN DoName(nextDo + 1) ELSE h[1]

ApiResp(op, userId, p, r) ==
    [op |-> op, id |-> p, user |-> userId, status |-> r.status, body |-> r.body]

\* One request under /api/projects: 401 without a session, else one of the
\* responses R of the instance the header names, its handler having run there.
ServerApi(userId, h, op, p, R) ==
    IF userId = None
    THEN /\ resp' = ApiResp(op, userId, p, Unauthorized)
         /\ UNCHANGED <<sql, r2, nextDo>>
    ELSE /\ h = None => nextDo < MaxRequests
         /\ \E r \in R :
                /\ sql' = IF r.db = DbOf(TargetDo(h)) THEN sql
                          ELSE MapPut(sql, TargetDo(h), r.db)
                /\ r2' = r.store
                /\ resp' = ApiResp(op, userId, p, r)
         /\ nextDo' = IF h = None THEN nextDo + 1 ELSE nextDo

\* GET /api/projects
ApiGetProjects(userId, h) ==
    /\ ServerApi(userId, h, "getProjects", "",
                 fetchGetProjects(DbOf(TargetDo(h)), r2, userId))
    /\ UNCHANGED <<now, nextId, builds, task, nextBuild, calls, history, page>>

\* POST /api/projects
ApiCreateProject(userId, h) ==
    /\ Cardinality(AllProjects) < MaxProjects
    /\ ServerApi(userId, h, "createProject", ProjectId(Cardinality(AllProjects) + 1),
                 {fetchCreateProject(DbOf(TargetDo(h)), r2,
                                     ProjectId(Cardinality(AllProjects) + 1), now,
                                     [name |-> "app", description |-> None],
                                     userId)})
    /\ UNCHANGED <<now, nextId, builds, task, nextBuild, calls, history, page>>

\* GET /api/projects/:id
ApiGetProject(userId, h, p) ==
    /\ ServerApi(userId, h, "getProject", p, {pmGetProject(DbOf(TargetDo(h)), r2, p)})
    /\ UNCHANGED <<now, nextId, builds, task, nextBuild, calls, history, page>>

\* GET /api/projects/:id/files
ApiGetFileTree(userId, h, p) ==
    /\ ServerApi(userId, h, "getFileTree", p, pmGetFileTree(DbOf(TargetDo(h)), r2, p))
    /\ UNCHANGED <<now, nextId, builds, task, nextBuild, calls, history, page>>

\* GET /api/projects/:id/files/:path
ApiGetFile(userId, h, p, path) ==
    /\ ServerApi(userId, h, "getFile", p,
                 {pmGetFile(DbOf(TargetDo(h)), r2, p, path, FALSE)})
    /\ UNCHANGED <<now, nextId, builds, task, nextBuild, calls, history, page>>

\* POST /api/projects/:id/files
ApiCreateFile(userId, h, p, path, content) ==
    /\ nextId < MaxFiles
    /\ ServerApi(userId, h, "createFile", p,
                 {pmCreateFile(DbOf(TargetDo(h)), r2, RowId(nextId + 1), now, p,
                               [path |-> path, name |-> BaseName(path),
                                type |-> "file", parent_path |-> ParentPath(path),
                                size |-> None, content |-> Some(content)],
                               FALSE)})
    /\ nextId' = IF userId = None THEN nextId ELSE nextId + 1
    /\ UNCHANGED <<now, builds, task, nextBuild, calls, history, page>>

\* PUT /api/projects/:id/files/:path
ApiUpdateFile(userId, h, p, path, content) ==
    /\ ServerApi(userId, h, "updateFile", p,
                 {pmUpdateFile(DbOf(TargetDo(h)), r2, now, p, path, content, FALSE)})
    /\ UNCHANGED <<now, nextId, builds, task, nextBuild, calls, history, page>>

\* DELETE /api/projects/:id/files/:path
ApiDeleteFile(userId, h, p, path) ==
    /\ ServerApi(userId, h, "deleteFile", p,
                 {pmDeleteFile(DbOf(TargetDo(h)), r2, now, p, path, FALSE)})
    /\ UNCHANGED <<now, nextId, builds, task, nextBuild, calls, history, page>>

\* The worker's project API, called by any session with any instance header.
NextProjects ==
    \/ \E userId \in Sessions, h \in DoHeaders : ApiGetProjects(userId, h)
    \/ \E userId \in Sessions, h \in DoHeaders : ApiCreateProject(userId, h)
    \/ \E userId \in Sessions, h \in DoHeaders, p \in ApiProjects :
            ApiGetProject(userId, h, p)
    \/ \E userId \in Sessions, h \in DoHeaders, p \in ApiProjects :
            ApiGetFileTree(userId, h, p)
    \/ \E userId \in Sessions, h \in DoHeaders, p \in ApiProjects, path \in ApiPaths :
            ApiGetFile(userId, h, p, path)
    \/ \E userId \in Sessions, h \in DoHeaders, p \in ApiProjects, path \in ApiPaths,
          content \in ApiContents :
            ApiCreateFile(userId, h, p, path, content)
    \/ \E userId \in Sessions, h \in DoHeaders, p \in ApiProjects, path \in ApiPaths,
          content \in ApiContents :
            ApiUpdateFile(userId, h, p, path, content)
    \/ \E userId \in Sessions, h \in DoHeaders, p \in ApiProjects, path \in ApiPaths :
            ApiDeleteFile(userId, h, p, path)
    \/ Tick

SpecProjects == InitFiles /\ [][NextProjects]_vars

-----------------------------------------------------------------------------
(* Build Coordinator: the state machine *)

KnownBuilds == {<<d, b>> \in Runners \X BuildIds : b \in DOMAIN BuildsOf(d)}

StatusRank(status) ==
    CASE status = "pending" -> 0
      [] status = "installing" -> 1
      [] status = "building" -> 2
      [] OTHER -> 3

\* C1: once a build's status is success or failed, no later step (background
\* continuation or cancel) changes its status.
C1_TerminalStatusIsFinal ==
    [][\A k \in KnownBuilds :
          Terminal(builds[k[1]][k[2]].status)
              => builds'[k[1]][k[2]].status = builds[k[1]][k[2]].status]_vars

\* C4: a status request through the worker's build interface for a build id
\* that a startBuild through that interface returned answers with the Build
\* record, never NotFound.
C4_IssuedBuildIsFound ==
    (resp.op = "getBuildStatus" /\ \E k \in KnownBuilds : k[2] = resp.id)
        => resp.status = 200

\* The message cancelBuild stores stands for the spec's error "cancelled".
IsCancelledError(e) == e \in {Some("cancelled"), Some("Build cancelled by user")}

\* C5: after cancelBuild has acted on a non-terminal build, and until the next
\* response is produced, a status read would return failed with the
\* cancellation error, whatever the background task has done in between.
C5_NextReadIsCancelled ==
    \A k \in KnownBuilds :
        (/\ resp.op = "cancelBuild"
         /\ resp.status = 200
         /\ resp.id = k[2]
         /\ resp.body.logs # <<>>
         /\ resp.body.logs[Len(resp.body.logs)] = "Build cancelled")
            => /\ builds[k[1]][k[2]].status = "failed"
               /\ IsCancelledError(builds[k[1]][k[2]].error)

\* C6: the record startBuild returns has status pending and no log line: no
\* phase step has run before the response is produced.
C6_StartBuildReturnsPending ==
    resp.op = "startBuild"
        => resp.body.status = "pending" /\ resp.body.logs = <<>>

\* C7: a build's status only moves forward along pending, installing,
\* building, then success or failed, and never leaves success or failed (a step
\* of the model may run several consecutive edges).
C7_StatusMonotonic ==
    [][\A k \in KnownBuilds :
          LET old == builds[k[1]][k[2]].status
              new == builds'[k[1]][k[2]].status
          IN  new # old => ~Terminal(old) /\ StatusRank(new) > StatusRank(old)]_vars

\* C8: cancelBuild on a build that is already success or failed leaves its
\* record (status, error, previewUrl, completedAt, logs) as it was, and
\* returns that record.
C8_CancelTerminalIsNoOp ==
    [][\A b \in BuildIds :
          (/\ b \in DOMAIN BuildsOf(TheRunner)
           /\ Terminal(builds[TheRunner][b].status)
           /\ resp'.op = "cancelBuild"
           /\ CancelBuild(b))
              => /\ builds' = builds
                 /\ resp'.body = builds[TheRunner][b]]_vars

\* A cancel was answered with a successful build's record: it found it terminal.
C8_Witness ==
    /\ resp.op = "cancelBuild"
    /\ resp.status = 200
    /\ resp.body.status = "success"

-----------------------------------------------------------------------------
(* Project Actor and code tools: the two stores of one project *)

\* A FileNode of type file exists for (p, path).
HasFileNode(db, p, path) == \E f \in FilesAt(db, p, path) : f.type = "file"

\* A content blob exists under key p/path.
HasBlob(store, p, path) == FileKey(p, path) \in DOMAIN store

DualStoreConsistent(db, store) ==
    \A path \in FilePaths :
        HasBlob(store, TheProject, path) <=> HasFileNode(db, TheProject, path)

\* The storage of the project's ProjectManager instance after the step.
DbAfter == IF TheProject \in DOMAIN sql' THEN sql'[TheProject] ELSE NoDb

\* C2: a file operation that starts with blobs and file FileNodes in
\* agreement and completes successfully leaves them in agreement: a blob under
\* projectId/path exactly when a FileNode of type file exists for that path.
C2_DualStoreConsistency ==
    [][(DualStoreConsistent(DbOf(TheProject), r2) /\ resp' # resp
            /\ resp'.status = 200)
          => DualStoreConsistent(DbAfter, r2')]_vars

\* moveFile(from, to) or renameFile to the path `to` took this step and
\* reported success.
MovedOrRenamed(from, to) ==
    /\ resp'.status = 200
    /\ \E failAt \in 0..5 :
          \/ MoveFileTool(from, to, failAt)
          \/ RenameFileTool(from, BaseName(to), failAt)

\* C3: after a successful moveFile or renameFile of an existing file to a free
\* path, a FileNode of type file is at the new path, getFile of the new path
\* returns the content that was at the old one, getFile of the old path is
\* NotFound, and the number of FileNodes is what it was.
C3_MoveKeepsFileAndContent ==
    [][\A from \in FilePaths : \A to \in FilePaths \ {from} :
          (/\ HasFileNode(DbOf(TheProject), TheProject, from)
           /\ HasBlob(r2, TheProject, from)
           /\ FilesAt(DbOf(TheProject), TheProject, to) = {}
           /\ ~HasBlob(r2, TheProject, to)
           /\ MovedOrRenamed(from, to))
              => LET old == r2[FileKey(TheProject, from)].body
                     atTo == pmGetFile(DbAfter, r2', TheProject, to, FALSE)
                     atFrom == pmGetFile(DbAfter, r2', TheProject, from, FALSE)
                 IN  /\ HasFileNode(DbAfter, TheProject, to)
                     /\ atTo.status = 200
                     /\ atTo.body.content = old
                     /\ atFrom.status = 404
                     /\ Cardinality(DbAfter.files)
                            = Cardinality(DbOf(TheProject).files)]_vars

\* C10: right after a successful updateFile(p, path, c), getFile(p, path)
\* returns content c and a size equal to the byte length of c.
C10_UpdateThenGet ==
    [][\A path \in FilePaths, c \in FileContents :
          (/\ resp'.op = "updateFile" /\ resp'.status = 200 /\ resp'.id = path
           /\ UpdateFile(path, c, FALSE))
              => LET got == pmGetFile(DbAfter, r2', TheProject, path, FALSE)
                 IN  /\ got.status = 200
                     /\ got.body.content = c
                     /\ got.body.file.size = ByteLength(c)]_vars

\* An updateFile succeeded with a content whose byte length differs from its
\* length in code units, and that content is what the bucket now holds.
C10_Witness ==
    /\ resp.op = "updateFile"
    /\ resp.status = 200
    /\ HasBlob(r2, TheProject, resp.id)
    /\ r2[FileKey(TheProject, resp.id)].body = EAcute
    /\ \E f \in FilesAt(DbOf(TheProject), TheProject, resp.id) : f.size = 2

-----------------------------------------------------------------------------
(* Project Actor: access control *)

\* The owner recorded for project p, where a project row with that id exists.
Owners(p) == {pr.user_id : pr \in {q \in AllProjects : q.id = p}}

\* A project or file operation on project p, requested by u with instance
\* header h, took this step.
ProjectOrFileOp(u, h, p) ==
    \/ ApiGetProject(Some(u), h, p)
    \/ ApiGetFileTree(Some(u), h, p)
    \/ \E path \in ApiPaths :
          \/ ApiGetFile(Some(u), h, p, path)
          \/ ApiDeleteFile(Some(u), h, p, path)
          \/ \E content \in ApiContents :
                \/ ApiCreateFile(Some(u), h, p, path, content)
                \/ ApiUpdateFile(Some(u), h, p, path, content)

\* C9: a project or file operation on an existing project by an authenticated
\* user who is not its owner is answered Unauthorized and changes neither the
\* metadata store nor the content store.
C9_NonOwnerIsRejected ==
    [][\A u \in Users, h \in DoHeaders, p \in ApiProjects :
          (Owners(p) # {} /\ u \notin Owners(p) /\ ProjectOrFileOp(u, h, p))
              => resp'.status = 401 /\ sql' = sql /\ r2' = r2]_vars

-----------------------------------------------------------------------------
(* Project Actor: files *)

\* getFile(p, path) answers NotFound because no FileNode is at the path.
NoFileNodeAt(db, store, path) ==
    LET got == pmGetFile(db, store, TheProject, path, FALSE)
    IN  got.status = 404 /\ got.body = [error |-> "File not found"]

\* A createFile request for the path took this step.
CreateFileStep(path) ==
    \E type \in {"file", "directory"},
       content \in InitialContents,
       size \in CallerSizes, fail \in BOOLEAN :
        CreateFile(path, type, content, size, fail)

\* C11: right after a successful deleteFile(p, path), getFile(p, path) answers
\* NotFound, and it keeps answering NotFound across every step that is not a
\* createFile on that path.
C11_DeleteThenGetNotFound ==
    [][\A path \in FilePaths :
          /\ (/\ resp'.op = "deleteFile" /\ resp'.status = 200 /\ resp'.id = path
              /\ DeleteFile(path, FALSE))
                => NoFileNodeAt(DbAfter, r2', path)
          /\ (/\ NoFileNodeAt(DbOf(TheProject), r2, path)
              /\ ~(resp'.op = "createFile" /\ resp'.id = path /\ CreateFileStep(path)))
                => NoFileNodeAt(DbAfter, r2', path)]_vars

\* A deleteFile succeeded on a path and nothing is at that path now.
C11_Witness ==
    /\ resp.op = "deleteFile"
    /\ resp.status = 200
    /\ NoFileNodeAt(DbOf(TheProject), r2, resp.id)
    /\ ~HasBlob(r2, TheProject, resp.id)

\* C12: in every state reached by creates, renames, moves and deletes, no two
\* FileNodes of the project have the same path.
C12_PathsAreUnique ==
    \A f \in DbOf(TheProject).files, g \in DbOf(TheProject).files :
        (f.project_id = g.project_id /\ f.path = g.path) => f = g

\* The second createFile was refused and inserted no row: it was addressed to
\* the path of the FileNode the first one had inserted.
C12_Witness ==
    /\ resp.op = "tool.createFile"
    /\ resp.status = 500
    /\ nextId = 2
    /\ {f.id : f \in DbOf(TheProject).files} = {RowId(1)}

\* C13: createFile on a path that already has a FileNode fails (the refused
\* INSERT surfaces as the error response that stands for Conflict) and leaves
\* every FileNode and every content blob as it was.
C13_CreateOnExistingPathFails ==
    [][\A path \in FilePaths :
          (/\ FilesAt(DbOf(TheProject), TheProject, path) # {}
           /\ resp'.op = "createFile" /\ resp'.id = path
           /\ CreateFileStep(path))
              => /\ resp'.status = 500
                 /\ DbAfter = DbOf(TheProject)
                 /\ r2' = r2]_vars

\* A second createFile request was refused without inserting a row, the first
\* one's FileNode and its blob being in place.
C13_Witness ==
    /\ resp.op = "createFile"
    /\ resp.status = 500
    /\ nextId = 2
    /\ \E f \in DbOf(TheProject).files :
          /\ DbOf(TheProject).files = {f}
          /\ f.id = RowId(1)
          /\ f.path = resp.id
          /\ HasBlob(r2, TheProject, f.path)

\* C14: in every state no content blob is stored under the key of a FileNode
\* of type directory (updateFile addressed to a directory writes no content).
C14_DirectoryHasNoBlob ==
    \A f \in DbOf(TheProject).files :
        f.type = "directory" => ~HasBlob(r2, f.project_id, f.path)

\* C15: after a successful createFile, the FileNode's size is the byte length
\* of the initial content for a file (0 when the content is omitted), whatever
\* size the caller supplied, and 0 for a directory.
C15_CreateDerivesSize ==
    [][\A path \in FilePaths, type \in {"file", "directory"},
          content \in InitialContents,
          size \in CallerSizes :
          (CreateFile(path, type, content, size, FALSE) /\ resp'.status = 200)
              => \A f \in FilesAt(DbAfter, TheProject, path) :
                    f.size = IF type = "file" THEN ByteLength(OrElse(content, ""))
                             ELSE 0]_vars

\* C16: listFiles returns every FileNode of the project once, every directory
\* before every file, and within directories and within files in ascending
\* order of name.
C16_ListDirectoriesFirst ==
    [][GetFileTree =>
          LET rows == resp'.body.rows
          IN  /\ {rows[i] : i \in DOMAIN rows} = DbOf(TheProject).files
              /\ Len(rows) = Cardinality(DbOf(TheProject).files)
              /\ \A i, j \in DOMAIN rows :
                    i < j => /\ ~(rows[i].type = "file" /\ rows[j].type = "directory")
                             /\ rows[i].type = rows[j].type
                                   => NameRank(rows[i].name) <= NameRank(rows[j].name)]_vars

-----------------------------------------------------------------------------
(* Project Actor: projects *)

\* The ProjectManager instance's storage after the step.
DbOfAfter(d) == IF d \in DOMAIN sql' THEN sql'[d] ELSE NoDb

\* A file mutation of project p, addressed as the editor and the tools address
\* it (to the instance named by the project id), took this step.
FileMutation(u, p) ==
    \E path \in ApiPaths :
        \/ ApiDeleteFile(Some(u), Some(p), p, path)
        \/ \E content \in ApiContents :
              \/ ApiCreateFile(Some(u), Some(p), p, path, content)
              \/ ApiUpdateFile(Some(u), Some(p), p, path, content)

\* C17: after a successful file mutation in project p, the Project record of
\* p that listProjects reads (in the instance the project list is kept in) has
\* updatedAt equal to the time of the mutation.
C17_MutationBumpsUpdatedAt ==
    [][\A u \in Users, p \in ApiProjects :
          (/\ \E pr \in DbOf(GlobalDo).projects : pr.id = p /\ pr.user_id = u
           /\ FileMutation(u, p)
           /\ resp'.status = 200)
              => \A pr \in DbOfAfter(GlobalDo).projects :
                    pr.id = p => pr.updated_at = now]_vars

-----------------------------------------------------------------------------
(* Code tools *)

\* C19: writeFile on a path with no FileNode, the stores not failing, reports
\* success, after which the project's listing has a file node for the path
\* and getFile returns the written content.
C19_WriteFileCreates ==
    [][\A path \in FilePaths, content \in FileContents :
          (/\ FilesAt(DbOf(TheProject), TheProject, path) = {}
           /\ WriteFileTool(path, content, 0))
              => LET got == pmGetFile(DbAfter, r2', TheProject, path, FALSE)
                 IN  /\ resp'.body.success
                     /\ \A listed \in pmGetFileTree(DbAfter, r2', TheProject) :
                           \E i \in DOMAIN listed.body.rows :
                               /\ listed.body.rows[i].path = path
                               /\ listed.body.rows[i].type = "file"
                     /\ got.status = 200
                     /\ got.body.content = content]_vars

-----------------------------------------------------------------------------
(* Build Coordinator: build profiles *)

\* The files getProjectFiles collects from the bucket for project p.
StoredFiles(p) ==
    LET keys == R2List(r2, p)
    IN  [i \in DOMAIN keys |->
            [path |-> keys[i], content |-> r2[FileKey(p, keys[i])].body]]

FrameworkProfiles == {"react", "vite-react", "nextjs", "vue", "svelte", "express"}

\* C20: a build of a project detected as a framework profile that has none of
\* the conventional entry files never ends success: once its task is over it
\* is failed, with the error naming the missing entry file unless the build
\* was cancelled or a store call failed first.
C20_FrameworkWithoutEntryFails ==
    \A k \in KnownBuilds :
        LET build == builds[k[1]][k[2]]
            files == StoredFiles(build.projectId)
        IN  (/\ task[k[1]][k[2]].pc = "done"
             /\ detectProjectType(files) \in FrameworkProfiles
             /\ \A i \in DOMAIN files : files[i].path \notin EntryPaths)
                => /\ build.status = "failed"
                   /\ build.error \in
                        {Some("No entry file found (main.tsx, index.tsx, etc.)"),
                         Some("Build cancelled by user"), Some("R2 error")}

\* executeBuild of build k went through its detect, install and build phases
\* in this step: getProjectFiles returned and no content-store call rejected.
PhasesRan(k) ==
    /\ task[k[1]][k[2]].pc \in {"list", "get"}
    /\ task'[k[1]][k[2]].pc \in {"put", "done"}
    /\ builds'[k[1]][k[2]].error # Some("R2 error")

\* The build phase of k returned its output in this step.
BuildPhaseReturned(k) ==
    /\ PhasesRan(k)
    /\ builds'[k[1]][k[2]].status \in {"building", "success"}

\* The path -> content pairs of a file list or of an output map.
Pairs(m) == {<<m[i].path, m[i].content>> : i \in DOMAIN m}

\* C21: for a project detected as static or as unknown, the output of the
\* build phase is the input file set: every input path with the same content,
\* and nothing else.
C21_StaticAndUnknownCopyVerbatim ==
    [][\A k \in KnownBuilds :
          LET t == task'[k[1]][k[2]]
          IN  (/\ BuildPhaseReturned(k)
               /\ detectProjectType(t.files) \in {"static", "unknown"})
                  => Pairs(t.out) = Pairs(t.files)]_vars

\* The manifest of the file list parses and declares the dependency, in
\* dependencies or in devDependencies.
Declares(files, dep) ==
    /\ HasPath(files, PackageJson)
    /\ LET pkg == JSONParse(FindPath(files, PackageJson).content)
       IN  pkg.ok /\ dep \in pkg.dependencies \cup pkg.devDependencies

\* C22: a project whose manifest declares both react and vite, whatever else
\* it declares, is detected as vite-react.
C22_FrameworkAndBundlerIsViteReact ==
    [][\A k \in KnownBuilds :
          LET t == task'[k[1]][k[2]]
              logs == builds'[k[1]][k[2]].logs
          IN  (/\ PhasesRan(k)
               /\ Declares(t.files, "react")
               /\ Declares(t.files, "vite"))
                  => /\ detectProjectType(t.files) = "vite-react"
                     /\ \E i \in DOMAIN logs :
                           logs[i] = "Detected project type: vite-react"]_vars

\* The log line executeBuild writes for the detected type.
DetectedAs(build, type) ==
    \E i \in DOMAIN build.logs : build.logs[i] = "Detected project type: " \o type

\* C22 (amended): a project whose manifest declares both react and vite is
\* detected as vite-react unless the manifest also declares next, in which
\* case it is detected as nextjs; it is never detected as react or static.
C22_ViteReactUnlessNext ==
    [][\A k \in KnownBuilds :
          LET t == task'[k[1]][k[2]]
              expected == IF Declares(t.files, "next") THEN "nextjs" ELSE "vite-react"
          IN  (/\ PhasesRan(k)
               /\ Declares(t.files, "react")
               /\ Declares(t.files, "vite"))
                  => /\ detectProjectType(t.files) = expected
                     /\ DetectedAs(builds'[k[1]][k[2]], expected)]_vars

\* A build read a manifest that declares react and vite and not next, and
\* logged the vite-react profile.
C22_Witness ==
    \E k \in KnownBuilds :
        LET files == task[k[1]][k[2]].files
        IN  /\ Declares(files, "react")
            /\ Declares(files, "vite")
            /\ ~Declares(files, "next")
            /\ DetectedAs(builds[k[1]][k[2]], "vite-react")

-----------------------------------------------------------------------------
(* Build Coordinator: outcome of a build *)

\* The output map the build phase of the task produced from the files it read.
BuildOutput(k) ==
    LET files == task[k[1]][k[2]].files
    IN  buildProject(files, detectProjectType(files), builds[k[1]][k[2]]).out

\* C23: whenever a build's status is success, its previewUrl is
\* /preview/{projectId}/{buildId}/, its completedAt is set, and every path of
\* the build output is stored under previews/{projectId}/{buildId}/{path} with
\* the output's content.
C23_SuccessHasPreviewAndArtifacts ==
    \A k \in KnownBuilds :
        LET build == builds[k[1]][k[2]]
            out == BuildOutput(k)
        IN  build.status = "success"
                => /\ build.previewUrl
                        = Some("/preview/" \o build.projectId \o "/" \o build.id \o "/")
                   /\ build.completedAt # None
                   /\ \A i \in DOMAIN out :
                         LET key == <<"previews", build.projectId, build.id>> \o out[i].path
                         IN  /\ key \in DOMAIN r2
                             /\ r2[key].body = out[i].content

\* A build of a project with files ended success with a non-empty output.
C23_Witness ==
    \E k \in KnownBuilds :
        /\ builds[k[1]][k[2]].status = "success"
        /\ Len(BuildOutput(k)) >= 2

\* JSON.parse of the manifest throws in installDependencies.
InstallRaises(files) ==
    /\ HasPath(files, PackageJson)
    /\ ~JSONParse(FindPath(files, PackageJson).content).ok

\* buildProject throws: a react profile with none of the entry files.
BuildRaises(files) ==
    /\ detectProjectType(files) \in {"react", "vite-react"}
    /\ \A i \in DOMAIN files : files[i].path \notin EntryPaths

\* The message of the exception raised inside executeBuild of build k in this
\* step, None if none is raised.
RaisedIn(k) ==
    IF ExecStoreFailure(k[1], k[2]) THEN Some("R2 error")
    ELSE IF PhasesRan(k) /\ InstallRaises(task'[k[1]][k[2]].files)
    THEN Some("Failed to parse package.json: SyntaxError")
    ELSE IF PhasesRan(k) /\ BuildRaises(task'[k[1]][k[2]].files)
    THEN Some("No entry file found (main.tsx, index.tsx, etc.)")
    ELSE None

\* C24: an exception raised in executeBuild (a rejected content-store call, a
\* manifest that does not parse, a missing entry file) is captured: in the
\* same step the build is failed with error the exception's message and
\* completedAt the current time, the task is over, and no response is
\* produced from it; the record of a failed build whose task is over never
\* changes again.
C24_PhaseExceptionIsCaptured ==
    [][\A k \in KnownBuilds :
          LET old == builds[k[1]][k[2]]
              new == builds'[k[1]][k[2]]
          IN  /\ RaisedIn(k) # None
                    => /\ new.status = "failed"
                       /\ new.error = RaisedIn(k)
                       /\ new.completedAt = Some(now)
                       /\ task'[k[1]][k[2]].pc = "done"
                       /\ resp' = resp
              /\ (task[k[1]][k[2]].pc = "done" /\ old.status = "failed")
                    => new = old]_vars

\* A content-store call of the deploy phase rejected after an artifact had
\* been written, and the build is failed with that error.
C24_Witness ==
    \E k \in KnownBuilds :
        LET build == builds[k[1]][k[2]]
        IN  /\ task[k[1]][k[2]].pc = "done"
            /\ build.status = "failed"
            /\ build.error = Some("R2 error")
            /\ build.completedAt # None
            /\ \E key \in DOMAIN r2 : key[1] = "previews"

-----------------------------------------------------------------------------
(* Build Coordinator: the log stream *)

\* C25: a log request for a known build is answered with a stream of the log
\* lines buffered at the time of the call, in order, and the stream is closed
\* after them whatever the build's status.
C25_LogStreamClosesAfterBufferedLines ==
    [][\A b \in BuildIds, method \in Methods :
          (/\ resp'.op = "getLogs"
           /\ b \in DOMAIN BuildsOf(TheRunner)
           /\ GetBuildLogs(b, method))
              => /\ "stream" \in DOMAIN resp'.body
                 /\ resp'.body.stream = builds[TheRunner][b].logs
                 /\ resp'.body.closed]_vars

-----------------------------------------------------------------------------
(* The worker's preview route (server.ts) *)

\* A path segment as it stands in url.pathname: the URL parser percent-encodes
\* the space, and the route does not decode it.
PercentEncode(segment) ==
    IF segment = "my file.css" THEN "my%20file.css" ELSE segment

\* new URL(request.url).pathname split on "/" with the empty parts dropped,
\* for a request addressed to /preview/{p}/{b}/{file}.
PathnameParts(p, b, file) ==
    <<"preview", PercentEncode(p), PercentEncode(b)>>
        \o [i \in DOMAIN file |-> PercentEncode(file[i])]

servePreview(store, parts) ==
    LET filePath == IF Len(parts) > 3 THEN SubSeq(parts, 4, Len(parts)) ELSE IndexHtml
        r2Key == <<"previews", parts[2], parts[3]>> \o filePath
    IN  IF Len(parts) >= 3 /\ r2Key \in DOMAIN store
        THEN [status |-> 200,
              body |-> [content |-> store[r2Key].body,
                        contentType |-> OrElse(store[r2Key].contentType, "text/html")]]
        ELSE [status |-> 404, body |-> [error |-> "Preview not found"]]

\* The relative files a preview request names; <<>> is the empty one.
PreviewFiles == {<<>>, IndexHtml, StyleCss, MyFileCss}

\* GET /preview/{p}/{b}/{file}
ServePreview(p, b, file) ==
    /\ \E r \in {servePreview(r2, PathnameParts(p, b, file))} :
          resp' = [op |-> "preview", id |-> b, status |-> r.status, body |-> r.body]
    /\ UNCHANGED <<now, r2, builds, task, nextBuild, nextDo, sql, nextId, calls, history, page>>

\* Projects to build and preview.
PreviewSeedStores ==
    { StoreOf("p1", {<<IndexHtml, HtmlDoc>>, <<StyleCss, "x">>}),
      StoreOf("p1", {<<IndexHtml, HtmlDoc>>, <<MyFileCss, "y">>}),
      StoreOf("p1", {<<PackageJson, PkgReact>>, <<SrcMainTsx, "x">>}),
      StoreOf("p1", {<<StyleCss, "x">>}) }

InitPreview ==
    /\ now = 1
    /\ r2 \in PreviewSeedStores
    /\ builds = <<>>
    /\ task = <<>>
    /\ nextBuild = 0
    /\ nextDo = 0
    /\ sql = <<>>
    /\ nextId = 0
    /\ calls = <<>>
    /\ history = {}
    /\ page = NoPage
    /\ resp = NoResp

\* Builds of one instance and the preview requests of their artifacts.
NextPreview ==
    \/ \E p \in BuildProjects : StartBuild(p)
    \/ \E d \in Runners, b \in BuildIds : ExecList(d, b)
    \/ \E d \in Runners, b \in BuildIds : ExecGet(d, b)
    \/ \E d \in Runners, b \in BuildIds : ExecPut(d, b)
    \/ \E d \in Runners, b \in BuildIds : ExecStoreFailure(d, b)
    \/ \E p \in BuildProjects, b \in BuildIds, file \in PreviewFiles :
          ServePreview(p, b, file)

SpecPreview == InitPreview /\ [][NextPreview]_vars

\* C26: a preview request for {projectId}/{buildId}/{relativeFile} is answered
\* with the artifact stored under previews/{projectId}/{buildId}/{relativeFile},
\* the empty relativeFile standing for index.html, and with not-found when no
\* such artifact is stored.
C26_PreviewResolvesArtifact ==
    [][\A p \in BuildProjects, b \in BuildIds, file \in PreviewFiles :
          (resp'.op = "preview" /\ resp'.id = b /\ ServePreview(p, b, file))
              => LET relativeFile == IF file = <<>> THEN IndexHtml ELSE file
                     key == <<"previews", p, b>> \o relativeFile
                 IN  IF key \in DOMAIN r2
                     THEN resp'.status = 200 /\ resp'.body.content = r2[key].body
                     ELSE resp'.status = 404]_vars

-----------------------------------------------------------------------------
(* Project Actor: repeated and concurrent updates *)

\* The FileNode at the path before and after the step.
NodeAt(path) == CHOOSE f \in FilesAt(DbOf(TheProject), TheProject, path) : TRUE
NodeAfter(path) == CHOOSE f \in FilesAt(DbAfter, TheProject, path) : TRUE

-----------------------------------------------------------------------------
(* ProjectManager.updateFile and deleteFile, step by step.  The instance runs *)
(* one piece of JavaScript at a time, but a handler suspended at an awaited   *)
(* R2 call lets the next request in: several calls can be between their       *)
(* SELECT and their UPDATE or DELETE at once.  The bucket applies each call   *)
(* at some moment, and the handler resumes at some later moment,              *)
(* independently for each call, or never if the instance is reset meanwhile.  *)

MaxCalls == 2

\* updateFile up to its await: the SELECT, the 404 answer, the put handed to R2.
BeginUpdateFile(path, content) ==
    /\ Len(calls) < MaxCalls
    /\ IF FilesAt(DbOf(TheProject), TheProject, path) = {}
       THEN /\ resp' = HttpResp("updateFile", path,
                                Result(DbOf(TheProject), r2, 404,
                                       [error |-> "File not found"]))
            /\ UNCHANGED calls
       ELSE /\ calls' = Append(calls,
                               [op |-> "update", path |-> path, content |-> content,
                                file |-> CHOOSE f \in FilesAt(DbOf(TheProject),
                                                             TheProject, path) : TRUE,
                                pc |-> "put", at |-> None])
            /\ UNCHANGED resp
    /\ UNCHANGED <<now, r2, sql, nextId, builds, task, nextBuild, nextDo, history, page>>

\* The bucket applies the put of call i.
PutApplied(i) ==
    /\ i \in DOMAIN calls
    /\ calls[i].pc = "put"
    /\ r2' = R2Put(r2, FileKey(TheProject, calls[i].path), Obj(calls[i].content))
    /\ calls' = [calls EXCEPT ![i].pc = "resume"]
    /\ UNCHANGED <<now, sql, nextId, builds, task, nextBuild, nextDo, resp, history, page>>

\* The put of call i rejects: fetch answers 500.
PutRejected(i) ==
    /\ i \in DOMAIN calls
    /\ calls[i].pc = "put"
    /\ calls' = [calls EXCEPT ![i].pc = "failed", ![i].at = Some(now)]
    /\ resp' = HttpResp("updateFile", calls[i].path,
                        Result(DbOf(TheProject), r2, 500, [error |-> "R2 error"]))
    /\ UNCHANGED <<now, r2, sql, nextId, builds, task, nextBuild, nextDo, history, page>>

\* The await of updateFile call i returns: the two UPDATEs and the response.
ResumeUpdateFile(i) ==
    /\ i \in DOMAIN calls
    /\ calls[i].op = "update"
    /\ calls[i].pc = "resume"
    /\ LET db == DbOf(TheProject)
           db1 == [db EXCEPT !.files =
                      {IF f.id = calls[i].file.id
                       THEN [f EXCEPT !.size = SizeOf(calls[i].content),
                                      !.updated_at = now]
                       ELSE f : f \in @}]
           db2 == TouchProject(db1, TheProject, now)
       IN  /\ sql' = MapPut(sql, TheProject, db2)
           /\ resp' = HttpResp("updateFile", calls[i].path, Result(db2, r2, 200, <<>>))
    /\ calls' = [calls EXCEPT ![i].pc = "done", ![i].at = Some(now)]
    /\ UNCHANGED <<now, r2, nextId, builds, task, nextBuild, nextDo, history, page>>

\* deleteFile up to its await: the SELECT, the 404 answer, the delete handed to R2.
BeginDeleteFile(path) ==
    /\ Len(calls) < MaxCalls
    /\ IF FilesAt(DbOf(TheProject), TheProject, path) = {}
       THEN /\ resp' = HttpResp("deleteFile", path,
                                Result(DbOf(TheProject), r2, 404,
                                       [error |-> "File not found"]))
            /\ UNCHANGED calls
       ELSE /\ calls' = Append(calls,
                               [op |-> "delete", path |-> path, content |-> "",
                                file |-> CHOOSE f \in FilesAt(DbOf(TheProject),
                                                             TheProject, path) : TRUE,
                                pc |-> "delete", at |-> None])
            /\ UNCHANGED resp
    /\ UNCHANGED <<now, r2, sql, nextId, builds, task, nextBuild, nextDo, history, page>>

\* The bucket applies the delete of call i.
DeleteApplied(i) ==
    /\ i \in DOMAIN calls
    /\ calls[i].pc = "delete"
    /\ r2' = R2Delete(r2, FileKey(TheProject, calls[i].path))
    /\ calls' = [calls EXCEPT ![i].pc = "resume"]
    /\ UNCHANGED <<now, sql, nextId, builds, task, nextBuild, nextDo, resp, history, page>>

\* The delete of call i rejects: fetch answers 500.
DeleteRejected(i) ==
    /\ i \in DOMAIN calls
    /\ calls[i].pc = "delete"
    /\ calls' = [calls EXCEPT ![i].pc = "failed", ![i].at = Some(now)]
    /\ resp' = HttpResp("deleteFile", calls[i].path,
                        Result(DbOf(TheProject), r2, 500, [error |-> "R2 error"]))
    /\ UNCHANGED <<now, r2, sql, nextId, builds, task, nextBuild, nextDo, history, page>>

\* The await of deleteFile call i returns: the DELETE, the UPDATE and the response.
ResumeDeleteFile(i) ==
    /\ i \in DOMAIN calls
    /\ calls[i].op = "delete"
    /\ calls[i].pc = "resume"
    /\ LET db == DbOf(TheProject)
           db1 == [db EXCEPT !.files = {f \in @ : f.id # calls[i].file.id}]
           db2 == TouchProject(db1, TheProject, now)
       IN  /\ sql' = MapPut(sql, TheProject, db2)
           /\ resp' = HttpResp("deleteFile", calls[i].path, Result(db2, r2, 200, <<>>))
    /\ calls' = [calls EXCEPT ![i].pc = "done", ![i].at = Some(now)]
    /\ UNCHANGED <<now, r2, nextId, builds, task, nextBuild, nextDo, history, page>>

\* The instance is reset (evicted, redeployed, crashed) while call i waits for
\* an R2 call the bucket has applied: the rest of the handler never runs.
Interrupted(i) ==
    /\ i \in DOMAIN calls
    /\ calls[i].pc = "resume"
    /\ calls' = [calls EXCEPT ![i].pc = "lost"]
    /\ UNCHANGED <<now, r2, sql, nextId, builds, task, nextBuild, nextDo, resp, history, page>>

\* The instance after createFile stored index.html with content "x".
InitConcurrent ==
    /\ now = 1
    /\ \E r \in {pmCreateFile(NoDb, <<>>, RowId(1), 1, TheProject,
                             [path |-> IndexHtml, name |-> BaseName(IndexHtml),
                              type |-> "file", parent_path |-> None,
                              size |-> None, content |-> Some("x")],
                             FALSE)} :
          /\ sql = MapPut(<<>>, TheProject, r.db)
          /\ r2 = r.store
    /\ builds = <<>>
    /\ task = <<>>
    /\ nextBuild = 0
    /\ nextDo = 0
    /\ nextId = 1
    /\ calls = <<>>
    /\ history = {}
    /\ page = NoPage
    /\ resp = NoResp

NextConcurrent ==
    \/ \E path \in FilePaths, content \in FileContents : BeginUpdateFile(path, content)
    \/ \E i \in 1..MaxCalls : PutApplied(i)
    \/ \E i \in 1..MaxCalls : PutRejected(i)
    \/ \E i \in 1..MaxCalls : ResumeUpdateFile(i)
    \/ \E path \in FilePaths : BeginDeleteFile(path)
    \/ \E i \in 1..MaxCalls : DeleteApplied(i)
    \/ \E i \in 1..MaxCalls : DeleteRejected(i)
    \/ \E i \in 1..MaxCalls : ResumeDeleteFile(i)
    \/ \E i \in 1..MaxCalls : Interrupted(i)
    \/ Tick

SpecConcurrent == InitConcurrent /\ [][NextConcurrent]_vars

\* The updateFile calls on the path that have returned successfully.
Completed(path) ==
    {i \in DOMAIN calls :
        calls[i].op = "update" /\ calls[i].path = path /\ calls[i].pc = "done"}

\* C28: once two concurrent updateFile calls on one path have both completed,
\* the FileNode's size is the byte length of the blob stored under the path,
\* and its updatedAt is the time of the later completion.
C28_ConcurrentUpdatesStayConsistent ==
    \A path \in FilePaths :
        (/\ Cardinality(Completed(path)) >= 2
         /\ \A i \in DOMAIN calls : calls[i].path = path => calls[i].pc = "done")
            => LET f == CHOOSE g \in FilesAt(DbOf(TheProject), TheProject, path) : TRUE
               IN  /\ f.size = ByteLength(r2[FileKey(TheProject, path)].body)
                   /\ \A i \in Completed(path) : f.updated_at >= calls[i].at[1]

\* No call on the path is under way.
Quiescent(path) ==
    \A i \in DOMAIN calls :
        calls[i].path = path => calls[i].pc \in {"done", "failed", "lost"}

\* C29: when a deleteFile on a path has failed or has been interrupted, and no
\* call on the path is under way, every FileNode of type file at the path
\* still has its blob: the blob delete came first and its failure left the
\* row, so no row is left pointing at a missing blob.
C29_FailedDeleteLeavesNoDanglingNode ==
    \A path \in FilePaths :
        (/\ Quiescent(path)
         /\ \E i \in DOMAIN calls : /\ calls[i].op = "delete"
                                    /\ calls[i].path = path
                                    /\ calls[i].pc \in {"failed", "lost"})
            => \A f \in FilesAt(DbOf(TheProject), TheProject, path) :
                  f.type = "file" => FileKey(TheProject, path) \in DOMAIN r2

-----------------------------------------------------------------------------
(* Code tools: a move or rename that stops half-way *)

\* The bucket when moveFile or renameFile is abandoned (worker killed, request
\* aborted) after `done` of its R2 calls have been applied: 2 is the get and
\* the put of the new key, 3 is also the delete of the old key.
AbandonedMove(store, p, from, to, done) ==
    LET content == store[FileKey(p, from)].body
        store1 == R2Put(store, FileKey(p, to), Obj(content))
        store2 == R2Delete(store1, FileKey(p, from))
    IN  IF done = 2 THEN store1 ELSE store2

\* moveFile(from, to), or renameFile of from to the name of to, abandoned
\* before its metadata requests: no result is produced.
MoveFileInterrupted(from, to, done) ==
    /\ FileKey(TheProject, from) \in DOMAIN r2
    /\ r2' = AbandonedMove(r2, TheProject, from, to, done)
    /\ resp' = [op |-> "interrupted", id |-> from, status |-> 0, body |-> [to |-> to]]
    /\ UNCHANGED <<now, sql, nextId, buildState>>

\* One file of the project, moved, renamed and rewritten by the tools.
NextRetry ==
    \/ \E from \in FilePaths, done \in 2..3 :
          \E to \in FilePaths \ {from} : MoveFileInterrupted(from, to, done)
    \/ \E from \in FilePaths : \E to \in FilePaths \ {from} : MoveFileTool(from, to, 0)
    \/ \E path \in FilePaths :
          \E newName \in FileNames \ {BaseName(path)} : RenameFileTool(path, newName, 0)
    \/ \E path \in FilePaths, content \in FileContents : WriteFileTool(path, content, 0)
    \/ Tick

SpecRetry == InitConcurrent /\ [][NextRetry]_vars

\* The same operation is run again in this step.
ReRun(from, to) ==
    \/ MoveFileTool(from, to, 0)
    \/ RenameFileTool(from, BaseName(to), 0)

\* C30: when a moveFile or renameFile was abandoned after the content had been
\* written under the new key and before its metadata requests, running the
\* same operation again succeeds and leaves what a whole move leaves: the
\* content under the new key, no blob under the old key and no FileNode at the
\* old path.
C30_InterruptedMoveIsRetriable ==
    [][\A from \in FilePaths : \A to \in FilePaths \ {from} :
          (/\ resp.op = "interrupted" /\ resp.id = from /\ resp.body.to = to
           /\ ReRun(from, to))
              => /\ resp'.body.success
                 /\ FileKey(TheProject, to) \in DOMAIN r2'
                 /\ r2'[FileKey(TheProject, to)].body = r2[FileKey(TheProject, to)].body
                 /\ FileKey(TheProject, from) \notin DOMAIN r2'
                 /\ FilesAt(DbAfter, TheProject, from) = {}]_vars

-----------------------------------------------------------------------------
(* Updates of a path that has no FileNode *)

\* writeFile or editFile of the path is run in this step.
WriteOrEdit(path) ==
    \/ \E content \in FileContents, failAt \in 0..2 : WriteFileTool(path, content, failAt)
    \/ \E old \in FileContents, failAt \in 0..3 :
          \E new \in FileContents \ {old} : EditFileTool(path, old, new, failAt)

\* C31: writeFile or editFile addressed to a path that has no FileNode reports
\* a failure and changes nothing: the files table and the bucket are after the
\* call what they were before it.
C31_UpdateOfMissingRowChangesNothing ==
    [][\A path \in FilePaths :
          (/\ FilesAt(DbOf(TheProject), TheProject, path) = {}
           /\ resp'.op \in {"tool.writeFile", "tool.editFile"}
           /\ WriteOrEdit(path))
              => /\ ~resp'.body.success
                 /\ DbAfter = DbOf(TheProject)
                 /\ r2' = r2]_vars

-----------------------------------------------------------------------------
(* Builds of a project whose files are edited meanwhile *)

MaxHistory == 3

\* The files under the project's prefix of a bucket, as getProjectFiles would
\* collect them were the bucket to stand still.
FilesIn(store, p) ==
    LET keys == R2List(store, p)
    IN  [i \in DOMAIN keys |->
            [path |-> keys[i], content |-> store[FileKey(p, keys[i])].body]]

\* A handler or tool that makes one write to the bucket returned r.
Edited(r) ==
    /\ Cardinality(history) < MaxHistory
    /\ Commit(TheProject, r)
    /\ history' = history \cup {FilesIn(r.store, TheProject)}
    /\ UNCHANGED <<now, nextId, builds, task, nextBuild, nextDo, calls, page>>

\* PUT /projects/:id/files/:path, at any moment of a build
EditUpdateFile(path, content) ==
    \E r \in {pmUpdateFile(DbOf(TheProject), r2, now, TheProject, path, content, FALSE)} :
        Edited(r) /\ resp' = HttpResp("updateFile", path, r)

\* DELETE /projects/:id/files/:path, at any moment of a build
EditDeleteFile(path) ==
    \E r \in {pmDeleteFile(DbOf(TheProject), r2, now, TheProject, path, FALSE)} :
        Edited(r) /\ resp' = HttpResp("deleteFile", path, r)

\* moveFile whose FILES.delete of the source rejects, at any moment of a build:
\* the content is under the destination key and the tool reports the failure.
EditMoveFileFails(from, to) ==
    \E r \in {toolMoveFile(DbOf(TheProject), r2, now, TheProject, from, to, 3)} :
        Edited(r) /\ resp' = ToolResp("tool.moveFile", from, r)

\* The instance after createFile stored index.html and style.css, each with
\* content "x".
InitEdits ==
    /\ now = 1
    /\ \E r1 \in {pmCreateFile(NoDb, <<>>, RowId(1), 1, TheProject,
                              [path |-> IndexHtml, name |-> BaseName(IndexHtml),
                               type |-> "file", parent_path |-> None,
                               size |-> None, content |-> Some("x")],
                              FALSE)} :
         \E r \in {pmCreateFile(r1.db, r1.store, RowId(2), 1, TheProject,
                                [path |-> StyleCss, name |-> BaseName(StyleCss),
                                 type |-> "file", parent_path |-> None,
                                 size |-> None, content |-> Some("x")],
                                FALSE)} :
            /\ sql = MapPut(<<>>, TheProject, r.db)
            /\ r2 = r.store
            /\ history = {FilesIn(r.store, TheProject)}
    /\ builds = <<>>
    /\ task = <<>>
    /\ nextBuild = 0
    /\ nextDo = 0
    /\ nextId = 2
    /\ calls = <<>>
    /\ page = NoPage
    /\ resp = NoResp

NextEdits ==
    \/ StartBuild(TheProject)
    \/ \E d \in Runners, b \in BuildIds : ExecList(d, b)
    \/ \E d \in Runners, b \in BuildIds : ExecGet(d, b)
    \/ \E d \in Runners, b \in BuildIds : ExecPut(d, b)
    \/ \E path \in FilePaths, content \in FileContents : EditUpdateFile(path, content)
    \/ \E path \in FilePaths : EditDeleteFile(path)
    \/ \E from \in FilePaths : \E to \in FilePaths \ {from} : EditMoveFileFails(from, to)

SpecEdits == InitEdits /\ [][NextEdits]_vars

\* The output map the build phase produces from a file list.
OutputOf(files, build) == buildProject(files, detectProjectType(files), build).out

\* C32: the output of a build's build phase is the output for the file set the
\* bucket held at one instant: the files the build read are never a mix of
\* contents that were not in the bucket together.
C32_BuildReadsOneSnapshot ==
    \A k \in KnownBuilds :
        LET build == builds[k[1]][k[2]]
            t == task[k[1]][k[2]]
        IN  (t.pc \in {"put", "done"} /\ build.status \in {"building", "success"})
                => \E snapshot \in history :
                      Pairs(OutputOf(t.files, build)) = Pairs(OutputOf(snapshot, build))

\* C33: every file the fetch loop of a build takes from the bucket has a
\* FileNode of type file at its path at that moment: a blob without a FileNode
\* is not read into the build.
C33_BuildReadsOnlyFileNodes ==
    [][\A k \in KnownBuilds :
          (k[1] \in DOMAIN task' /\ k[2] \in DOMAIN task'[k[1]])
              => LET before == task[k[1]][k[2]].files
                     after == task'[k[1]][k[2]].files
                 IN  \A i \in DOMAIN after :
                        i > Len(before)
                            => HasFileNode(DbOf(TheProject), TheProject, after[i].path)]_vars

-----------------------------------------------------------------------------
(* Build Coordinator: the record of a finished build *)

\* The fields of a Build record other than its status that a finished build keeps.
Outcome(build) ==
    [logs |-> build.logs, error |-> build.error,
     previewUrl |-> build.previewUrl, completedAt |-> build.completedAt]

\* C34: once a build's status is success or failed, no later step (background
\* continuation or cancel) changes its logs, error, previewUrl or completedAt.
C34_TerminalRecordIsImmutable ==
    [][\A k \in KnownBuilds :
          Terminal(builds[k[1]][k[2]].status)
              => Outcome(builds'[k[1]][k[2]]) = Outcome(builds[k[1]][k[2]])]_vars

-----------------------------------------------------------------------------
(* Build Coordinator: the log of a build *)

IsPrefix(s, t) == Len(s) <= Len(t) /\ SubSeq(t, 1, Len(s)) = s

\* C35: a build's log list is append-only: every step leaves the logs it found
\* as a prefix of the logs it leaves, and a status read returns the logs as they
\* are stored, so the logs of an earlier read are a prefix of those of any later
\* read.
C35_LogsAreAppendOnly ==
    [][/\ \A k \in KnownBuilds :
             IsPrefix(builds[k[1]][k[2]].logs, builds'[k[1]][k[2]].logs)
       /\ (resp'.op = "getBuildStatus" /\ resp'.status = 200
             /\ GetBuildStatus(resp'.id))
             => resp'.body.logs = builds'[TheRunner][resp'.id].logs]_vars

\* A read returned the logs of a cancelled build and the background task has
\* appended to them since.
C35_Witness ==
    /\ resp.op = "getBuildStatus"
    /\ resp.status = 200
    /\ \E i \in DOMAIN resp.body.logs : resp.body.logs[i] = "Build cancelled"
    /\ Len(resp.body.logs) < Len(builds[TheRunner][resp.id].logs)

-----------------------------------------------------------------------------
(* Project Actor: a directory and a file inside it *)

TreePaths == {SrcDir, SrcMainTsx}

\* createFile and deleteFile requests for the directory src and the file
\* src/main.tsx, the editor sending parent_path as the path without its last
\* segment.
NextTree ==
    \/ \E path \in TreePaths, type \in {"file", "directory"},
          content \in InitialContents, size \in CallerSizes, fail \in BOOLEAN :
            CreateFile(path, type, content, size, fail)
    \/ \E path \in TreePaths, fail \in BOOLEAN : DeleteFile(path, fail)
    \/ Tick

SpecTree == InitFiles /\ [][NextTree]_vars

\* C36: the parent_path of every FileNode is null or the path of a FileNode of
\* type directory of the same project.
C36_ParentIsAnExistingDirectory ==
    \A f \in DbOf(TheProject).files :
        f.parent_path # None
            => \E g \in DbOf(TheProject).files :
                  /\ g.project_id = f.project_id
                  /\ g.path = f.parent_path[1]
                  /\ g.type = "directory"

-----------------------------------------------------------------------------
(* Build Coordinator: termination of a build *)

\* The awaited content-store call of the build's task returns or throws.
StoreCallSettles(d, b) ==
    \/ ExecList(d, b)
    \/ ExecGet(d, b)
    \/ ExecPut(d, b)
    \/ ExecStoreFailure(d, b)

\* The instance's routes and tasks, every content-store call a task awaits
\* settling in the end.
SpecBuildFair ==
    /\ InitBuild
    /\ [][NextBuild]_vars
    /\ \A b \in BuildIds : WF_vars(StoreCallSettles(TheRunner, b))

Started(b) == b \in DOMAIN BuildsOf(TheRunner)

Finished(b) == Started(b) /\ Terminal(builds[TheRunner][b].status)

\* C37: every started build eventually has a terminal status (success or
\* failed) and keeps one from then on, whether or not cancelBuild is called
\* while it runs.
C37_BuildEndsTerminal ==
    \A b \in BuildIds : Started(b) ~> [](Finished(b))

\* The task of a build that was cancelled on its way is over and the build is
\* terminal.
C37_Witness ==
    \E b \in BuildIds :
        /\ Finished(b)
        /\ task[TheRunner][b].pc = "done"
        /\ \E i \in DOMAIN builds[TheRunner][b].logs :
              builds[TheRunner][b].logs[i] = "Build cancelled"

\* C38: a Build record's fields agree with its status: error is set only when
\* the status is failed and previewUrl only when it is success.
C38_FieldsAgreeWithStatus ==
    \A k \in KnownBuilds :
        LET build == builds[k[1]][k[2]]
        IN  /\ build.error # None => build.status = "failed"
            /\ build.previewUrl # None => build.status = "success"

-----------------------------------------------------------------------------
(* The browser's WebContainer singleton (webcontainer.ts).  boots holds the   *)
(* state of the promise each WebContainer.boot() returned, in the order of    *)
(* the invocations; a promise is named by its place in it.  A call is          *)
(* returned, rejected, or waiting for a promise to settle.  The reactions of  *)
(* a settled promise run in any order here; the engine runs them in the order *)
(* they were registered.                                                       *)

MaxCallers == 5

\* The instance the n-th WebContainer.boot() resolves to.
Instance(n) == "wc" \o ToString(n)

\* getWebContainer without the test of bootPromise.
getWebContainerWithoutBootCheck(pg) ==
    IF pg.webcontainerInstance # None
    THEN [pg EXCEPT !.callers = Append(@, [pc |-> "returned", promise |-> None,
                                           owner |-> FALSE,
                                           result |-> pg.webcontainerInstance])]
    ELSE LET n == Len(pg.boots) + 1
         IN  [pg EXCEPT !.boots = Append(@, "pending"),
                        !.bootPromise = Some(n),
                        !.callers = Append(@, [pc |-> "await", promise |-> Some(n),
                                               owner |-> TRUE, result |-> None])]

\* getWebContainer up to its return or its await.
getWebContainer(pg) ==
    IF pg.webcontainerInstance # None
    THEN [pg EXCEPT !.callers = Append(@, [pc |-> "returned", promise |-> None,
                                           owner |-> FALSE,
                                           result |-> pg.webcontainerInstance])]
    ELSE IF pg.bootPromise # None
    THEN [pg EXCEPT !.callers = Append(@, [pc |-> "await", promise |-> pg.bootPromise,
                                           owner |-> FALSE, result |-> None])]
    ELSE LET n == Len(pg.boots) + 1
         IN  [pg EXCEPT !.boots = Append(@, "pending"),
                        !.bootPromise = Some(n),
                        !.callers = Append(@, [pc |-> "await", promise |-> Some(n),
                                               owner |-> TRUE, result |-> None])]

serverState == <<now, r2, builds, task, nextBuild, nextDo, sql, nextId, calls, history, resp>>

\* A component calls getWebContainer().
GetWebContainer ==
    /\ Len(page.callers) < MaxCallers
    /\ page' = getWebContainer(page)
    /\ UNCHANGED serverState

\* The promise of the n-th WebContainer.boot() is fulfilled.
BootFulfilled(n) ==
    /\ n \in DOMAIN page.boots
    /\ page.boots[n] = "pending"
    /\ page' = [page EXCEPT !.boots[n] = "fulfilled"]
    /\ UNCHANGED serverState

\* The promise of the n-th WebContainer.boot() is rejected.
BootRejected(n) ==
    /\ n \in DOMAIN page.boots
    /\ page.boots[n] = "pending"
    /\ page' = [page EXCEPT !.boots[n] = "rejected"]
    /\ UNCHANGED serverState

\* The call that invoked boot() resumes after its await: lines 18-21, or the
\* await throws and the call rejects.
OwnerResumes(i) ==
    /\ i \in DOMAIN page.callers
    /\ page.callers[i].pc = "await"
    /\ page.callers[i].owner
    /\ LET n == page.callers[i].promise[1]
       IN  \/ /\ page.boots[n] = "fulfilled"
              /\ page' = [page EXCEPT !.webcontainerInstance = Some(Instance(n)),
                                      !.bootPromise = None,
                                      !.callers[i].pc = "returned",
                                      !.callers[i].result = Some(Instance(n))]
           \/ /\ page.boots[n] = "rejected"
              /\ page' = [page EXCEPT !.callers[i].pc = "rejected"]
    /\ UNCHANGED serverState

\* A call that returned bootPromise settles as that promise did.
BorrowerResumes(i) ==
    /\ i \in DOMAIN page.callers
    /\ page.callers[i].pc = "await"
    /\ ~page.callers[i].owner
    /\ LET n == page.callers[i].promise[1]
       IN  \/ /\ page.boots[n] = "fulfilled"
              /\ page' = [page EXCEPT !.callers[i].pc = "returned",
                                      !.callers[i].result = Some(Instance(n))]
           \/ /\ page.boots[n] = "rejected"
              /\ page' = [page EXCEPT !.callers[i].pc = "rejected"]
    /\ UNCHANGED serverState

InitPage ==
    /\ now = 1
    /\ r2 = <<>>
    /\ builds = <<>>
    /\ task = <<>>
    /\ nextBuild = 0
    /\ nextDo = 0
    /\ sql = <<>>
    /\ nextId = 0
    /\ calls = <<>>
    /\ history = {}
    /\ page = NoPage
    /\ resp = NoResp

NextPage ==
    \/ GetWebContainer
    \/ \E n \in 1..MaxCallers : BootFulfilled(n)
    \/ \E n \in 1..MaxCallers : BootRejected(n)
    \/ \E i \in 1..MaxCallers : OwnerResumes(i)
    \/ \E i \in 1..MaxCallers : BorrowerResumes(i)

SpecPage == InitPage /\ [][NextPage]_vars

\* C39: WebContainer.boot is invoked at most once, every call that has
\* returned holds the same instance, and every call that waits, waits for the
\* promise of that one boot.
C39_BootsOnce ==
    /\ Len(page.boots) <= 1
    /\ \A i, j \in DOMAIN page.callers :
          (page.callers[i].pc = "returned" /\ page.callers[j].pc = "returned")
              => page.callers[i].result = page.callers[j].result
    /\ \A i \in DOMAIN page.callers :
          page.callers[i].pc = "await" => page.callers[i].promise = Some(1)

\* A call made while the boot was in flight and a call made after it have
\* both returned.
C39_Witness ==
    /\ Len(page.callers) = MaxCallers
    /\ \A i \in DOMAIN page.callers : page.callers[i].pc = "returned"
    /\ \E i \in DOMAIN page.callers :
          ~page.callers[i].owner /\ page.callers[i].promise # None
    /\ \E i \in DOMAIN page.callers : page.callers[i].promise = None

====
